---- MODULE Spec2Model ----
(***************************************************************************)
(* Verification model of the triangular-arbitrage bot.                     *)
(*                                                                         *)
(*   TradeSpec    TradingCore.execute_arbitrage (core/trading_core.py),    *)
(*                BotCore.execute_order and BotCore.stop (core/bot_core.py)*)
(*                and the shutdown path of main.py.                        *)
(*   BreakerSpec  CircuitBreaker and the circuit_breaker decorator         *)
(*                (utils/circuit_breaker.py) with concurrent callers.      *)
(*   RetrySpec    the same breaker under handle_errors                     *)
(*                (utils/error_handler.py), as AIPairFinder uses it.       *)
(*   LimiterSpec  RateLimiter.check_rate_limit (utils/rate_limiter.py),    *)
(*                in-memory state.                                         *)
(*   CacheSpec    BotCore's price cache, its lock and the detection of     *)
(*                triangular opportunities (core/bot_core.py).             *)
(*   CurrencySpec CurrencyCore's tickers and its search for candidates     *)
(*                (core/currency_core.py).                                 *)
(*   ValidatorSpec  ArbitrageAgent._validate_opportunity                   *)
(*                (core/ai/arbitrage_agent.py) and                         *)
(*                TradingCore.validate_opportunity on given opportunities. *)
(*   ClientSpec   BinanceWebsocketClient: connect, the multiplex socket    *)
(*                and the stream buffer (core/binance_websocket.py).       *)
(*   StreamsSpec  BotCore's stream batches: one task of                    *)
(*                _handle_batch_stream per batch, writing the price cache  *)
(*                (core/bot_core.py); StreamsLiveSpec adds the fairness of *)
(*                the event loop.                                          *)
(*   RedisSpec    RateLimiter.check_rate_limit with Redis: concurrent      *)
(*                checks suspended at hgetall and hmset.                   *)
(*   ConfigSpec   ConfigManager.update_config (ui/web/config_routes.py).   *)
(*   ManagerSpec  ConnectionManager.execute_trades                         *)
(*                (core/connection_manager.py).                            *)
(*   StartSpec    BotCore.start around _maintain_connection and cleanup;   *)
(*                StartLiveSpec adds the fairness of the event loop.       *)
(*                                                                         *)
(* Amounts are integers in units of 1e-8 of a coin; the exchange client is *)
(* the asynchronous one, so every client call is a suspension point at     *)
(* which the exchange answers and at which a task cancellation can land.   *)
(***************************************************************************)
EXTENDS Integers, Sequences, FiniteSets, TLC

----------------------------------------------------------------------------
(* Bounds of the model *)

\* number of execute_arbitrage calls in one behaviour
MaxCalls == 2
\* balances answered by the exchange are 0..MaxBalance times the trade amount
MaxBalance == 2
\* number of BotCore.execute_order calls in one behaviour
MaxBotOrders == 1

\* concurrent callers of functions wrapped by one circuit breaker
NumCallers == 2
\* failure_threshold of a breaker ranges over 1..MaxThreshold
MaxThreshold == 2
\* the failure counter of a breaker is followed up to MaxFailures
MaxFailures == 3
\* the clock runs from 0 to MaxTime
MaxTime == 4

\* a rate limit allows 1..MaxLimit requests per window
MaxLimit == 2
\* a rate limit's window lasts 1..MaxWindow ticks
MaxWindow == 2
\* the cost of a request is 1..MaxCost
MaxCost == 3

\* the clock of the price cache runs from 1 to MaxCacheTime
MaxCacheTime == 2
\* the agent's clock runs from 0 to MaxAgentTime ticks of 250 ms
MaxAgentTime == 3
\* connect is called with max_retries in 1..MaxRetries
MaxRetries == 2
\* connection attempts counted in one connect call
MaxAttempts == 3
\* capacity of the stream buffer (50000 in the program)
MaxBuffer == 2
\* messages the socket delivers in one behaviour
MaxMessages == 4
\* sockets and buffer processors counted for one client
MaxSockets == 2
\* sockets one batch task opens
MaxConnects == 2
\* receive timeouts in a row that are told apart on one socket
MaxSilence == 2
\* lines of config_history.jsonl that are told apart
MaxHistory == 2
\* orders in one call of execute_trades
MaxTrades == 3

----------------------------------------------------------------------------
(* Program constants, in units of 1e-8 coin unless said otherwise *)

\* TRADING_CONFIG['min_volume_btc'] = 0.01
trade_amount == 1000000
\* TRADING_CONFIG['fee_rate'] = 0.001, in thousandths
fee_rate == 1
\* TRADING_CONFIG['max_slippage'] = 0.002, in thousandths
max_slippage == 2
\* TRADING_CONFIG['min_profit'] = 0.2 percent, in thousandths of a percent
min_profit == 200
\* stop_loss_pct = 0.01, in hundredths
stop_loss_pct == 1
\* default lot size: step_size = min_qty = 0.00001
step_size == 1000
min_qty == 1000
\* default max_qty = 9999999 coins, saturated to the largest integer of the
\* model; it lies above every amount the bounds can produce
max_qty == 2147483647

\* api_circuit: failure_threshold = 5
api_failure_threshold == 5
\* api_circuit: recovery_timeout = 60.0 and half_open_timeout = 30.0, in ticks of 30 s
recovery_timeout == 2
api_half_open_timeout == 1
\* handle_errors(retries=3, delay=1.0) around both protected operations
api_retries == 3

\* BotCore: quotes are used while younger than 5 s; one tick of the cache
\* clock is 5 s
stale_ticks == 1
\* BotCore: a stream message is used when its latency is below 500 ms
\* batch_size of _start_price_streams, scaled to the three symbols
batch_size == 2
\* max_retries of BotCore.start
start_max_retries == 3
max_latency == 500
\* BotCore._calculate_triangular_profit: fee = 0.001 per operation, in
\* millionths; profits are in millionths too (0.0001 percent)
fee_ppm == 1000
\* BotCore: opportunities need a profit above 0.1 percent
min_profit_ppm == 1000
\* BotCore: the 10 best opportunities are kept
max_opportunities == 10

\* stands for a rate field that is not a number: Decimal(str(rate)) raises on it
BadRate == 0
Rates == {BadRate, 1, 2}
\* opportunity['rate'], in thousandths (1.004 and 1.005)
OppRates == {1004, 1005}
Volumes == {0, trade_amount}
Opportunities ==
    [rate : OppRates, a_rate : Rates, b_rate : Rates, c_rate : Rates,
     a_volume : Volumes, b_volume : Volumes, c_volume : Volumes]
Balances == {k * trade_amount : k \in 0..MaxBalance}

NoOpportunity ==
    [rate |-> 0, a_rate |-> 0, b_rate |-> 0, c_rate |-> 0,
     a_volume |-> 0, b_volume |-> 0, c_volume |-> 0]
NoTrade == [id |-> 0, status |-> "none", steps |-> <<>>,
            initial_balance |-> -1, stop_loss |-> -1]

\* CurrencyCore: a leg needs at least 10 trades in 24 h
MIN_TRADES == 10
\* CurrencyCore: a leg needs a volume of 0.01 BTC, in units of 1e-5 BTC
MIN_VOLUME_BTC == 1000
\* CurrencyCore: a leg's spread is at most 2 percent of its ask
MAX_SPREAD_PCT == 2
\* CurrencyCore: a candidate's rate exceeds 1.002, in units of 1e-4
min_rate == 10020
\* a ticker message of the exchange: prices in tenths, quantities in
\* thousandths of a coin
TickerData ==
    { [bidPrice |-> 10, askPrice |-> 10, lastPrice |-> 10, bidQty |-> 20,
       askQty |-> 20, volume |-> 1, count |-> 10],
      [bidPrice |-> 20, askPrice |-> 20, lastPrice |-> 20, bidQty |-> 20,
       askQty |-> 20, volume |-> 1, count |-> 10],
      [bidPrice |-> 10, askPrice |-> 20, lastPrice |-> 10, bidQty |-> 20,
       askQty |-> 20, volume |-> 1, count |-> 10],
      [bidPrice |-> 20, askPrice |-> 20, lastPrice |-> 20, bidQty |-> 5,
       askQty |-> 20, volume |-> 1, count |-> 10] }
\* no Ticker object stored for a symbol
NoTicker == [bid_price |-> -1, ask_price |-> -1, last_price |-> -1,
             bid_qty |-> -1, ask_qty |-> -1, volume |-> -1, trades |-> -1,
             flipped |-> FALSE]

\* ArbitrageAgent: min_profit = 0.3 percent, in hundredths of a percent
agent_min_profit == 30
\* ArbitrageAgent: max_spread = 0.15 percent, in hundredths of a percent
agent_max_spread == 15
\* ArbitrageAgent: min_volume = 100000 USDT
agent_min_volume == 100000
\* ArbitrageAgent: min_confidence = 75
min_confidence == 75
\* ArbitrageAgent: an analysis passes with a risk_score of at most 7
max_risk == 7
\* ArbitrageAgent: cache_ttl = 500 ms, in ticks of 250 ms
cache_ttl == 2
\* the paths detect_opportunities validates
Routes == {"ETHBTC-BNBBTC-ETHBNB", "BNBBTC-ETHBTC-BNBETH"}
\* an opportunity of _calculate_opportunity: its profit_percentage is above
\* min_profit; spread is the widest spread of its legs, in hundredths of a
\* percent, which the dict does not carry
AgentOpportunities ==
    [path : Routes, profit_percentage : {40}, volume_24h : {50000, 100000},
     spread : {10, 20}]
\* what analyze_opportunity returns: a dict with the scores, a dict without
\* them, or {'error': ...} after the scorer raised or timed out
Analyses ==
    { [kind |-> "scores", confidence_score |-> 80, risk_score |-> 5,
       slippage |-> 10, volume_sufficient |-> TRUE],
      [kind |-> "scores", confidence_score |-> 50, risk_score |-> 5,
       slippage |-> 10, volume_sufficient |-> TRUE],
      [kind |-> "no opinion", confidence_score |-> 0, risk_score |-> 0,
       slippage |-> 0, volume_sufficient |-> FALSE],
      [kind |-> "error", confidence_score |-> 0, risk_score |-> 0,
       slippage |-> 0, volume_sufficient |-> FALSE] }
\* an opportunity handed to TradingCore.validate_opportunity, as CurrencyCore
\* builds it: the three volumes are the least of the legs' volumes; spread is
\* the widest (ask - bid) / ask of a_bid .. c_ask, in hundredths of a percent
TradeCandidates ==
    {[rate |-> r, a_volume |-> v, b_volume |-> v, c_volume |-> v, spread |-> s] :
        r \in OppRates, v \in Volumes, s \in {100, 300}}
NoEntry == [timestamp |-> -1, valid |-> FALSE, opp |-> <<>>]
NoVerdict == [by |-> "none", opp |-> <<>>, valid |-> FALSE, source |-> "none",
              analysis |-> "none", calls |-> 0]

VARIABLES
    test_mode,        \* TradingCore.test_mode
    bot_test_mode,    \* BotCore.test_mode
    running,          \* BotCore.running; FALSE once stop() ran and the process exits
    pc,               \* position of the execute_arbitrage task
    calls,            \* execute_arbitrage calls made so far
    opportunity,      \* argument of the call in progress
    trade,            \* the trade dict of the call in progress
    i,                \* loop index of the leg in progress
    current_amount,   \* local current_amount
    quantity,         \* local quantity
    last_balance,     \* the balance the exchange answered last to this call
    accepted,         \* legs of this trade whose order the exchange accepted
    active_trades,    \* TradingCore.active_trades, as [id, status] of each trade
    completed_trades, \* TradingCore.completed_trades, likewise
    orders,           \* legs of this trade for which place_order called create_order, in call order
    bot_calls,        \* number of BotCore.execute_order calls
    bot_orders        \* number of create_order calls made by BotCore.execute_order

VARIABLES
    failure_threshold,  \* CircuitBreaker.failure_threshold
    half_open_timeout,  \* CircuitBreaker.half_open_timeout
    state,              \* CircuitBreaker.state
    failure_count,      \* CircuitBreaker.failure_count
    last_failure_time,  \* CircuitBreaker.last_failure_time
    now,                \* time.time()
    cpc,                \* per caller: position inside the decorator's wrapper
    cop,                \* per caller: the operation name of its call, kept
                        \* after a rejection
    outcome,            \* per caller: how its last call through the wrapper ended
                        \* ("blocked", "ok", "error"); during a call, "probe" if its
                        \* admission moved the breaker to HALF_OPEN, else "none"
    waiters,            \* per operation: callers queued on its asyncio.Lock
    streak,             \* wrapped calls that failed since the last one that succeeded
    retries,            \* handle_errors: retries (1 when the wrapper is called directly)
    attempt,            \* per caller: handle_errors' loop variable
    failed_ops          \* operations whose wrapped function has raised so far

bvars == <<failure_threshold, half_open_timeout, state, failure_count,
           last_failure_time, now, cpc, cop, outcome, waiters, streak,
           retries, attempt, failed_ops>>

tvars == <<test_mode, bot_test_mode, running, pc, calls, opportunity, trade, i,
           current_amount, quantity, last_balance, accepted, active_trades,
           completed_trades, orders, bot_calls, bot_orders>>

VARIABLES
    limit,        \* RateLimit.requests of the limit in use
    window,       \* RateLimit.window of the limit in use
    rl_state,     \* RateLimiter.state[scope]: per key requests and window_start
    rl_now,       \* time.time() as the rate limiter reads it
    rl_result,    \* the latest check_rate_limit call and how it returned
    admitted      \* per key and age j: the total cost accepted j ticks ago,
                  \* for the ages inside one window length

lvars == <<limit, window, rl_state, rl_now, rl_result, admitted>>

VARIABLES
    phase,              \* BotCore: "new", "streaming" (initialized), "cleaning", "cleaned"
    price_cache,        \* BotCore.price_cache: per symbol a quote, or no entry
    lock,               \* BotCore._price_cache_lock: "free" or who holds it
    cache_pc,           \* where the running handler stands; "idle" when every
                        \* task is at a suspension point
    via,                \* the handler running: "stream" or "update"
    price_data,         \* the handler's local price_data and its symbol
    snapshot,           \* _detect_arbitrage_opportunities: its copy of the cache
    opportunities,      \* BotCore.opportunities
    last_process_time,  \* BotCore.last_process_time
    cnow                \* time.time() as BotCore reads it

cvars == <<phase, price_cache, lock, cache_pc, via, price_data, snapshot,
           opportunities, last_process_time, cnow>>

VARIABLES
    tickers,     \* CurrencyCore.tickers: per symbol a Ticker object, or none
    candidates,  \* what get_dynamic_candidates_from_stream returned last
    next_tick,   \* ticker_loop: index of the symbol it ticks next
    cycled       \* a search has run since the last tick

uvars == <<tickers, candidates, next_tick, cycled>>

VARIABLES
    agent_cache,  \* ArbitrageAgent.cache: per path the entry's timestamp and
                  \* valid, and the opportunity the entry was computed for
    agent_now,    \* time.time() as the agent reads it
    verdict       \* the latest validation: who validated what, what it
                  \* returned and from where; calls alternates between 0 and 1

avars == <<agent_cache, agent_now, verdict>>

VARIABLES
    ws_running,     \* BinanceWebsocketClient._running
    client,         \* BinanceWebsocketClient.client: "none", "client", or
                    \* "falsy" for a value of AsyncClient.create that is not true
    twm,            \* BinanceWebsocketClient.twm is set
    conn_pc,        \* position of the connect task
    max_retries,    \* argument of connect
    retry_count,    \* connect: retry_count
    ping_try,       \* connect: the loop variable of the ping loop
    attempts,       \* connection attempts (iterations of the while loop) of
                    \* this connect call
    result,         \* what connect returned: "none" while it has not
    mux_pc,         \* position of the start_multiplex_socket task
    sockets,        \* multiplex sockets started on the socket manager
    processors,     \* _process_buffer tasks created and not cancelled
    stream_buffer,  \* BinanceWebsocketClient._stream_buffer
    next_msg,       \* number of the next message the socket delivers
    handler_pc,     \* handle_socket_message: "idle" or "draining"
    arrival,        \* the latest message handled, the buffer it met, and where
                    \* the message went
    in_flight,      \* messages a processor took whose callbacks have not
                    \* finished
    delivered       \* the messages the callbacks finished with, in that order

wvars == <<ws_running, client, twm, conn_pc, max_retries, retry_count, ping_try,
           attempts, result, mux_pc, sockets, processors, stream_buffer,
           next_msg, handler_pc, arrival, in_flight, delivered>>

\* what the actions of one component leave alone
VARIABLES
    batch_pc,   \* per batch, where the task of _handle_batch_stream stands:
                \* "none" (not created), "connect", "receiving", "recv_sleep",
                \* "sleeping", "stopped"
    connects,   \* per batch, how many times the task has entered a socket
    silence     \* per batch, the receive timeouts in a row on its socket

svars == <<batch_pc, connects, silence>>

VARIABLES
    config,          \* ConfigManager.config: per category, per key, a string
    config_history,  \* lines appended to config_history.jsonl
    updated          \* the last call of update_config and what it returned

gvars == <<config, config_history, updated>>

VARIABLES
    cm_connected,  \* ConnectionManager.is_connected and a client exists
    cm_pc,         \* execute_trades: "idle", "sending", "returned"
    cm_trades,     \* the trades of the call
    cm_next,       \* index of the trade sent next
    cm_results,    \* the local list results
    cm_filled,     \* the orders the exchange has accepted in this call
    cm_returned    \* what the call returned

mvars == <<cm_connected, cm_pc, cm_trades, cm_next, cm_results, cm_filled,
           cm_returned>>

VARIABLES
    redis,        \* the hashes ratelimit:<scope>:<key> of the Redis server
    redis_pc,     \* per caller of check_rate_limit: "idle", "hgetall", "hmset"
    redis_call,   \* per caller: key and cost of its call, and its local info
    redis_taken   \* per key: the cost accepted in the window the hash is in

rvars == <<redis, redis_pc, redis_call, redis_taken>>

VARIABLES
    start_pc,     \* BotCore.start: "off", "maintain" (inside gather),
                  \* "finally", "returned", "raised"
    start_retry   \* BotCore.start: retry_count

xvars == <<start_pc, start_retry>>

notTrade == <<bvars, lvars, cvars, uvars, avars, wvars, svars, gvars, mvars, rvars, xvars>>
notBreaker == <<tvars, lvars, cvars, uvars, avars, wvars, svars, gvars, mvars, rvars, xvars>>
notLimiter == <<tvars, bvars, cvars, uvars, avars, wvars, svars, gvars, mvars, rvars, xvars>>
notCache == <<tvars, bvars, lvars, uvars, avars, wvars, gvars, mvars, rvars, xvars>>

vars == <<tvars, bvars, lvars, cvars, uvars, avars, wvars, svars, gvars, mvars, rvars, xvars>>

----------------------------------------------------------------------------
(* Pure helpers of TradingCore *)

Max(a, b) == IF a >= b THEN a ELSE b
Min(a, b) == IF a <= b THEN a ELSE b

\* Decimal.quantize(Decimal('1')) of n/d under the default ROUND_HALF_EVEN
RoundHalfEven(n, d) ==
    LET q == n \div d
        r == n % d
    IN  IF 2 * r > d THEN q + 1
        ELSE IF 2 * r < d THEN q
        ELSE IF q % 2 = 0 THEN q ELSE q + 1

\* get_lot_size always answers the defaults here: run_until_complete raises
\* inside the running loop and the except branch returns them
normalize_quantity(qty) ==
    LET normalized == IF step_size # 0
                      THEN RoundHalfEven(qty, step_size) * step_size
                      ELSE qty
    IN  Max(Min(normalized, max_qty), min_qty)

\* check_balance: balance < required_amount -> False
check_balance(balance, required) == ~(balance < required)

\* net profit of validate_opportunity in thousandths of a percent:
\* (rate - 1) * 100 - fee_rate * 3 * 100
net_profit(opp) == (opp.rate - 1000) * 100 - fee_rate * 3 * 100

\* trade['stop_loss'] = initial_balance * (1 - stop_loss_pct), in hundredths
\* of a unit, so that the comparison below stays in integers
stop_loss_floor(initial) == initial * (100 - stop_loss_pct)

\* mutant: the comparison with the floor turned around
stop_loss_hit_reversed(balance, floor) == balance * 100 > floor

\* float(current_balance) < trade['stop_loss']
stop_loss_hit(balance, floor) == balance * 100 < floor

\* quantity * rate * (1 - fee_rate); quantity is a multiple of step_size
next_amount(qty, rate) == (qty \div 1000) * rate * (1000 - fee_rate)

\* the (from, to, rate) triple of leg n: its rate
leg_rate(opp, n) == IF n = 1 THEN opp.a_rate
                    ELSE IF n = 2 THEN opp.b_rate ELSE opp.c_rate

\* the entry of the trade in progress is the last one appended
SetLastStatus(list, st) ==
    [list EXCEPT ![Len(list)] = [@ EXCEPT !.status = st]]

\* list.remove(x): drops the first element equal to x
RemoveFirst(list, x) ==
    LET idx == CHOOSE k \in 1..Len(list) :
                   list[k] = x /\ \A j \in 1..(k - 1) : list[j] # x
    IN  [k \in 1..(Len(list) - 1) |-> IF k < idx THEN list[k] ELSE list[k + 1]]

----------------------------------------------------------------------------
(* TradingCore.execute_arbitrage, one action per suspension point *)

Callers == 1..NumCallers
\* the operations api_circuit protects in AIPairFinder
Operations == {"get_binance_pairs", "analyze_market_data"}

\* a breaker as its constructor leaves it, nobody calling through it
BreakerFresh ==
    /\ state = "closed"
    /\ failure_count = 0
    /\ last_failure_time = 0
    /\ now = 0
    /\ cpc = [c \in Callers |-> "idle"]
    /\ cop = [c \in Callers |-> "none"]
    /\ outcome = [c \in Callers |-> "none"]
    /\ waiters = [o \in Operations |-> <<>>]
    /\ streak = 0
    /\ attempt = [c \in Callers |-> 0]
    /\ failed_ops = {}

\* the keys (user names) requests are counted for
Keys == {"alice", "bob"}
\* RateLimiter.limits has the category asked for, or it has not (KeyError)
Categories == {"api", "unknown"}
\* no entry for a key yet: the defaultdict creates one on first access
NoInfo == [requests |-> 0, window_start |-> -1]
NoCheck == [key |-> "none", cost |-> 0, outcome |-> "none", reset_in |-> 0]

\* a RateLimiter as its constructor leaves it (in-memory state, no Redis)
LimiterFresh ==
    /\ rl_state = [k \in Keys |-> NoInfo]
    /\ rl_now = 0
    /\ rl_result = NoCheck
    /\ admitted = [k \in Keys |-> [j \in 0..(MaxWindow - 1) |-> 0]]

\* a symbol is the pair of asset names its string is made of: ETHBTC is
\* <<"ETH", "BTC">>; the symbols the exchange lists as TRADING, in its order
SymbolOrder == << <<"ETH", "BTC">>, <<"BNB", "BTC">>, <<"BNB", "ETH">> >>
Symbols == {SymbolOrder[n] : n \in 1..Len(SymbolOrder)}
\* bid and ask a stream message can carry
Quotes == {<<1, 1>>, <<2, 2>>, <<2, 1>>}
\* bidPrice and askPrice a price update can carry
UpdateQuotes == {<<0, 1>>, <<1, 1>>}
\* latencies of a message, in ms
Latencies == {100, 600}
NoQuote == [bid |-> -1, ask |-> -1, timestamp |-> -1, latency |-> -1]
\* the entry _init_price_cache writes: all fields 0.0
Placeholder == [bid |-> 0, ask |-> 0, timestamp |-> 0, latency |-> 0]
NoPriceData == [symbol |-> <<>>, quote |-> NoQuote]

\* BotCore as its constructor leaves it
CacheFresh ==
    /\ phase = "new"
    /\ price_cache = [sym \in Symbols |-> NoQuote]
    /\ lock = "free"
    /\ cache_pc = "idle"
    /\ via = "none"
    /\ price_data = NoPriceData
    /\ snapshot = [sym \in Symbols |-> NoQuote]
    /\ opportunities = <<>>
    /\ last_process_time = 1
    /\ cnow = 1

NoArrival == [msg |-> 0, met |-> <<>>, went |-> "none"]

\* BinanceWebsocketClient as its constructor leaves it
ClientFresh ==
    /\ ws_running = TRUE
    /\ client = "none"
    /\ twm = FALSE
    /\ conn_pc = "idle"
    /\ max_retries = 0
    /\ retry_count = 0
    /\ ping_try = 0
    /\ attempts = 0
    /\ result = "none"
    /\ mux_pc = "off"
    /\ sockets = 0
    /\ processors = 0
    /\ stream_buffer = <<>>
    /\ next_msg = 1
    /\ handler_pc = "idle"
    /\ arrival = NoArrival
    /\ in_flight = {}
    /\ delivered = <<>>

\* symbols_list[i:i + batch_size] for the b-th value of i
batch(b) ==
    {SymbolOrder[n] : n \in ((b - 1) * batch_size + 1)
                              .. (IF b * batch_size <= Len(SymbolOrder)
                                  THEN b * batch_size ELSE Len(SymbolOrder))}
\* the values of range(0, len(symbols_list), batch_size), counted from 1
Batches == 1 .. ((Len(SymbolOrder) + batch_size - 1) \div batch_size)

\* BotCore before _start_price_streams: no batch task exists
StreamsFresh ==
    /\ batch_pc = [b \in Batches |-> "none"]
    /\ connects = [b \in Batches |-> 0]
    /\ silence = [b \in Batches |-> 0]

\* _get_default_config
default_config ==
    [category \in {"trading", "monitoring", "rate_limits", "security"} |->
        CASE category = "trading" ->
                 [key \in {"min_profit", "stop_loss", "take_profit",
                           "trade_amount", "max_slippage", "fee_rate"} |->
                     CASE key = "min_profit" -> "0.2"
                       [] key = "stop_loss" -> "1.0"
                       [] key = "take_profit" -> "0.5"
                       [] key = "trade_amount" -> "0.01"
                       [] key = "max_slippage" -> "0.2"
                       [] OTHER -> "0.1"]
          [] category = "monitoring" ->
                 [key \in {"update_interval", "backup_interval",
                           "retention_days", "notify_on_trade",
                           "notify_on_error", "min_profit_notify"} |->
                     CASE key = "update_interval" -> "1.0"
                       [] key = "backup_interval" -> "86400"
                       [] key = "retention_days" -> "30"
                       [] key = "min_profit_notify" -> "0.5"
                       [] OTHER -> "true"]
          [] category = "rate_limits" ->
                 [key \in {"api_requests_per_hour", "api_requests_per_minute",
                           "orders_per_second", "weight_per_minute"} |->
                     CASE key = "api_requests_per_hour" -> "10000"
                       [] key = "api_requests_per_minute" -> "100"
                       [] key = "orders_per_second" -> "10"
                       [] OTHER -> "1200"]
          [] OTHER ->
                 [key \in {"max_daily_trades", "max_trade_amount",
                           "max_daily_volume"} |->
                     CASE key = "max_daily_trades" -> "1000"
                       [] key = "max_trade_amount" -> "0.05"
                       [] OTHER -> "1.0"]]

NoUpdate == [category |-> "", key |-> "", value |-> "", appended |-> FALSE,
             returned |-> "none"]

\* ConfigManager as its constructor leaves it when no file exists
ConfigFresh ==
    /\ config = default_config
    /\ config_history = 0
    /\ updated = NoUpdate

NoReturn == [success |-> FALSE, error |-> FALSE, listed |-> FALSE,
             results |-> <<>>]

\* ConnectionManager as its constructor leaves it
ManagerFresh ==
    /\ cm_connected = FALSE
    /\ cm_pc = "idle"
    /\ cm_trades = <<>>
    /\ cm_next = 1
    /\ cm_results = <<>>
    /\ cm_filled = <<>>
    /\ cm_returned = NoReturn

NoCall == [key |-> "none", cost |-> 0, info |-> NoInfo]

\* a Redis server without hashes and no check under way
RedisFresh ==
    /\ redis = [k \in Keys |-> NoInfo]
    /\ redis_pc = [c \in Callers |-> "idle"]
    /\ redis_call = [c \in Callers |-> NoCall]
    /\ redis_taken = [k \in Keys |-> 0]

\* BotCore.start has not been called
StartFresh ==
    /\ start_pc = "off"
    /\ start_retry = 0

\* ArbitrageAgent as its constructor leaves it
AgentFresh ==
    /\ agent_cache = [r \in Routes |-> NoEntry]
    /\ agent_now = 0
    /\ verdict = NoVerdict

\* CurrencyCore as its constructor leaves it
CurrencyFresh ==
    /\ tickers = [sym \in Symbols |-> NoTicker]
    /\ candidates = <<>>
    /\ next_tick = 1
    /\ cycled = FALSE

\* TradingCore and BotCore as constructed, no call in progress
TradeFresh ==
    /\ running = TRUE
    /\ pc = "idle"
    /\ calls = 0
    /\ opportunity = NoOpportunity
    /\ trade = NoTrade
    /\ i = 0
    /\ current_amount = 0
    /\ quantity = 0
    /\ last_balance = 0
    /\ accepted = {}
    /\ active_trades = <<>>
    /\ completed_trades = <<>>
    /\ orders = <<>>
    /\ bot_calls = 0
    /\ bot_orders = 0

TradeInit ==
    /\ test_mode \in BOOLEAN
    /\ bot_test_mode \in BOOLEAN
    /\ TradeFresh
    /\ failure_threshold = api_failure_threshold
    /\ half_open_timeout = api_half_open_timeout
    /\ retries = api_retries
    /\ BreakerFresh
    /\ limit = MaxLimit /\ window = MaxWindow
    /\ LimiterFresh
    /\ CacheFresh
    /\ CurrencyFresh
    /\ AgentFresh
    /\ ClientFresh
    /\ StreamsFresh
    /\ ConfigFresh
    /\ ManagerFresh
    /\ RedisFresh
    /\ StartFresh

\* the call returns False before a trade dict exists
ReturnNoTrade ==
    /\ pc' = "idle"
    /\ opportunity' = NoOpportunity
    /\ UNCHANGED <<trade, i, current_amount, quantity,
                   accepted, active_trades, completed_trades, orders>>

\* execute_arbitrage is entered; validate_opportunity runs up to its balance query
Call(opp) ==
    /\ running /\ pc = "idle" /\ calls < MaxCalls
    /\ UNCHANGED notTrade
    /\ calls' = calls + 1
    /\ trade' = NoTrade
    /\ i' = 0 /\ current_amount' = 0 /\ quantity' = 0 /\ last_balance' = 0
    /\ accepted' = {} /\ orders' = <<>>
    /\ IF net_profit(opp) < min_profit
       THEN pc' = "idle" /\ opportunity' = NoOpportunity
       ELSE pc' = "validate" /\ opportunity' = opp
    /\ UNCHANGED <<test_mode, bot_test_mode, running, active_trades,
                   completed_trades, bot_calls, bot_orders>>

\* validate_opportunity's balance query answers; on success the trade dict is built
ValidateBalance(balance) ==
    /\ running /\ pc = "validate"
    /\ UNCHANGED notTrade
    /\ last_balance' = balance
    /\ IF \/ ~check_balance(balance, trade_amount)
          \/ opportunity.a_volume < trade_amount
          \/ opportunity.b_volume < trade_amount
          \/ opportunity.c_volume < trade_amount
       THEN ReturnNoTrade
       ELSE /\ trade' = [NoTrade EXCEPT !.id = Len(active_trades) + 1,
                                        !.status = "started"]
            /\ pc' = "initial_balance"
            /\ UNCHANGED <<opportunity, i, current_amount, quantity,
                           accepted, active_trades, completed_trades, orders>>
    /\ UNCHANGED <<test_mode, bot_test_mode, running, calls, bot_calls, bot_orders>>

\* the initial balance answers: stop loss is fixed, the trade becomes active
GetInitialBalance(balance) ==
    /\ running /\ pc = "initial_balance"
    /\ UNCHANGED notTrade
    /\ last_balance' = balance
    /\ trade' = [trade EXCEPT !.initial_balance = balance,
                              !.stop_loss = stop_loss_floor(balance)]
    /\ active_trades' = Append(active_trades,
                               [id |-> trade.id, status |-> trade.status])
    /\ current_amount' = trade_amount
    /\ i' = 1
    /\ pc' = "check_balance"
    /\ UNCHANGED <<test_mode, bot_test_mode, running, calls, opportunity,
                   quantity, accepted, completed_trades, orders, bot_calls,
                   bot_orders>>

\* the call returns: its argument and its locals are gone
DropLocals ==
    /\ opportunity' = NoOpportunity
    /\ current_amount' = 0
    /\ quantity' = 0

\* mutant: the status is set but the return is missing, the loop goes on
FailWithoutReturn ==
    /\ trade' = [trade EXCEPT !.status = "failed"]
    /\ active_trades' = SetLastStatus(active_trades, "failed")
    /\ pc' = "stop_loss"
    /\ UNCHANGED <<opportunity, current_amount, quantity>>

\* trade['status'] = 'failed'; return False
Fail ==
    /\ trade' = [trade EXCEPT !.status = "failed"]
    /\ active_trades' = SetLastStatus(active_trades, "failed")
    /\ pc' = "idle"
    /\ DropLocals

\* the order of leg i goes out: place_order awaits create_order
SendOrder ==
    /\ orders' = Append(orders, i)
    /\ pc' = "order"

\* mutant: the order goes out whatever the mode
OrderStepAlwaysSends == SendOrder

\* the single point where test mode and real execution differ
OrderStep ==
    IF test_mode
    THEN pc' = "stop_loss" /\ UNCHANGED orders
    ELSE SendOrder

\* the balance check of leg i answers; with enough balance the order is prepared
\* and, outside test mode, sent
CheckBalance(balance) ==
    /\ running /\ pc = "check_balance"
    /\ UNCHANGED notTrade
    /\ last_balance' = balance
    /\ IF ~check_balance(balance, current_amount)
       THEN Fail /\ UNCHANGED orders
       ELSE IF leg_rate(opportunity, i) = BadRate
       THEN Fail /\ UNCHANGED orders
       ELSE /\ quantity' = normalize_quantity(current_amount)
            /\ OrderStep
            /\ UNCHANGED <<trade, active_trades, opportunity, current_amount>>
    /\ UNCHANGED <<test_mode, bot_test_mode, running, calls, i, accepted,
                   completed_trades, bot_calls, bot_orders>>

\* mutant: the result of place_order is not looked at
OrderResponseIgnored(ok) ==
    /\ running /\ pc = "order"
    /\ UNCHANGED notTrade
    /\ accepted' = IF ok THEN accepted \cup {i} ELSE accepted
    /\ pc' = "stop_loss"
    /\ UNCHANGED <<test_mode, bot_test_mode, running, calls, opportunity, trade,
                   i, current_amount, quantity, last_balance, active_trades,
                   completed_trades, orders, bot_calls, bot_orders>>

\* create_order answers: the order id, or an exception that place_order turns to False
OrderResponse(ok) ==
    /\ running /\ pc = "order"
    /\ UNCHANGED notTrade
    /\ IF ok
       THEN /\ accepted' = accepted \cup {i}
            /\ pc' = "stop_loss"
            /\ UNCHANGED <<trade, active_trades, opportunity, current_amount,
                           quantity>>
       ELSE Fail /\ UNCHANGED accepted
    /\ UNCHANGED <<test_mode, bot_test_mode, running, calls, i, last_balance,
                   completed_trades, orders, bot_calls, bot_orders>>

\* the step entry appended for leg i
StepEntry ==
    [step |-> i, quantity |-> quantity,
     price |-> leg_rate(opportunity, i) * (1000 + max_slippage),
     result_amount |-> next_amount(quantity, leg_rate(opportunity, i))]

\* the balance read after leg i answers: stop loss, or the step is recorded and
\* the loop goes on to the next leg or completes the trade
StopLossCheck(balance) ==
    /\ running /\ pc = "stop_loss"
    /\ UNCHANGED notTrade
    /\ last_balance' = balance
    /\ IF stop_loss_hit(balance, trade.stop_loss)
       THEN /\ trade' = [trade EXCEPT !.status = "stopped"]
            /\ active_trades' = SetLastStatus(active_trades, "stopped")
            /\ pc' = "idle"
            /\ DropLocals
            /\ UNCHANGED <<i, completed_trades>>
       ELSE IF i < 3
               THEN /\ current_amount' =
                           next_amount(quantity, leg_rate(opportunity, i))
                    /\ trade' = [trade EXCEPT !.steps = Append(@, StepEntry)]
                    /\ i' = i + 1
                    /\ pc' = "check_balance"
                    /\ UNCHANGED <<opportunity, quantity, active_trades,
                                   completed_trades>>
               ELSE /\ DropLocals
                    /\ trade' = [trade EXCEPT !.steps = Append(@, StepEntry),
                                              !.status = "completed"]
                    /\ completed_trades' =
                           Append(completed_trades,
                                  [id |-> trade.id, status |-> "completed"])
                    /\ active_trades' =
                           RemoveFirst(SetLastStatus(active_trades, "completed"),
                                       [id |-> trade.id, status |-> "completed"])
                    /\ pc' = "idle"
                    /\ UNCHANGED i
    /\ UNCHANGED <<test_mode, bot_test_mode, running, calls, accepted, orders,
                   bot_calls, bot_orders>>

----------------------------------------------------------------------------
(* BotCore *)

AwaitPoints == {"validate", "initial_balance", "check_balance", "order", "stop_loss"}

\* main.cleanup -> BotCore.stop: running is cleared and every other task is
\* cancelled, then the process exits. CancelledError is raised at the await the
\* task is suspended on; it is no Exception, so no handler of TradingCore sees it.
Stop ==
    /\ running
    /\ UNCHANGED notTrade
    /\ running' = FALSE
    /\ pc' = IF pc \in AwaitPoints THEN "cancelled" ELSE pc
    /\ UNCHANGED <<test_mode, bot_test_mode, calls, opportunity, trade, i,
                   current_amount, quantity, last_balance, accepted,
                   active_trades, completed_trades, orders, bot_calls, bot_orders>>

\* BotCore.execute_order: in test mode it logs and returns None before create_order
execute_order ==
    /\ running /\ bot_calls < MaxBotOrders
    /\ UNCHANGED notTrade
    /\ bot_calls' = bot_calls + 1
    /\ IF bot_test_mode
       THEN UNCHANGED bot_orders
       ELSE bot_orders' = bot_orders + 1
    /\ UNCHANGED <<test_mode, bot_test_mode, running, pc, calls, opportunity,
                   trade, i, current_amount, quantity, last_balance,
                   accepted, active_trades, completed_trades, orders>>

TradeNext ==
    \/ \E opp \in Opportunities : Call(opp)
    \/ \E b \in Balances : ValidateBalance(b)
    \/ \E b \in Balances : GetInitialBalance(b)
    \/ \E b \in Balances : CheckBalance(b)
    \/ \E ok \in BOOLEAN : OrderResponse(ok)
    \/ \E b \in Balances : StopLossCheck(b)
    \/ Stop
    \/ execute_order

TradeSpec == TradeInit /\ [][TradeNext]_vars

----------------------------------------------------------------------------
(* CircuitBreaker and the circuit_breaker decorator *)

\* _should_allow_request: its return value
should_allow_request(st, t, last_failure, half_open) ==
    IF st = "closed" THEN TRUE
    ELSE IF st = "open" THEN t - last_failure >= recovery_timeout
    ELSE t - last_failure >= half_open

\* _should_allow_request: the state it leaves
state_after_request(st, t, last_failure) ==
    IF st = "open" /\ t - last_failure >= recovery_timeout
    THEN "half_open" ELSE st

\* mutant: the failure count survives the return to CLOSED
handle_success_count_kept(st, count) == count

\* _handle_success: the failure count it leaves
handle_success_count(st, count) == IF st = "half_open" THEN 0 ELSE count

\* _handle_success: the state it leaves
handle_success_state(st) == IF st = "half_open" THEN "closed" ELSE st

\* _handle_failure: the state it leaves, count being the incremented counter
handle_failure_state(st, count, threshold) ==
    IF count >= threshold /\ st # "open" THEN "open" ELSE st

\* the asyncio.Lock of an operation is held by the caller running under it
LockHeld(o) == \E d \in Callers : cpc[d] = "running" /\ cop[d] = o

BreakerInit ==
    /\ failure_threshold \in 1..MaxThreshold
    /\ half_open_timeout \in {api_half_open_timeout, recovery_timeout + 1}
    /\ retries = 1
    /\ BreakerFresh
    /\ test_mode = TRUE
    /\ bot_test_mode = TRUE
    /\ TradeFresh
    /\ limit = MaxLimit /\ window = MaxWindow
    /\ LimiterFresh
    /\ CacheFresh
    /\ CurrencyFresh
    /\ AgentFresh
    /\ ClientFresh
    /\ StreamsFresh
    /\ ConfigFresh
    /\ ManagerFresh
    /\ RedisFresh
    /\ StartFresh

\* handle_errors after an exception of attempt att: sleep and try again
\* unless it was the last attempt, then raise last_error
after_error(att) == IF att < retries - 1 THEN "sleeping" ELSE "idle"

\* wrapper entry: _should_allow_request, then the lock of the operation; the
\* wrapped function starts at once when the lock is free
Enter(c, o, att) ==
    /\ cop' = [cop EXCEPT ![c] = o]
    /\ IF ~should_allow_request(state, now, last_failure_time, half_open_timeout)
       THEN /\ outcome' = [outcome EXCEPT ![c] = "blocked"]
            /\ cpc' = [cpc EXCEPT ![c] = after_error(att)]
            /\ attempt' = [attempt EXCEPT ![c] =
                               IF after_error(att) = "idle" THEN 0 ELSE att]
            /\ UNCHANGED <<state, waiters>>
       ELSE /\ state' = state_after_request(state, now, last_failure_time)
            /\ outcome' = [outcome EXCEPT ![c] =
                               IF state' # state THEN "probe" ELSE "none"]
            /\ attempt' = [attempt EXCEPT ![c] = att]
            /\ IF LockHeld(o) \/ waiters[o] # <<>>
               THEN /\ cpc' = [cpc EXCEPT ![c] = "waiting"]
                    /\ waiters' = [waiters EXCEPT ![o] = Append(@, c)]
               ELSE /\ cpc' = [cpc EXCEPT ![c] = "running"]
                    /\ UNCHANGED waiters
    /\ UNCHANGED <<failure_threshold, half_open_timeout, failure_count,
                   last_failure_time, now, streak, retries, failed_ops>>

\* a protected operation is called: first attempt
Begin(c, o) ==
    /\ cpc[c] = "idle"
    /\ UNCHANGED notBreaker
    /\ Enter(c, o, 0)

\* handle_errors: the sleep between two attempts is over, next attempt
Retry(c) ==
    /\ cpc[c] = "sleeping"
    /\ UNCHANGED notBreaker
    /\ Enter(c, cop[c], attempt[c] + 1)

\* the lock was released and this caller is first in line: the wrapped function starts
Acquire(c) ==
    /\ cpc[c] = "waiting"
    /\ ~LockHeld(cop[c])
    /\ Head(waiters[cop[c]]) = c
    /\ UNCHANGED notBreaker
    /\ cpc' = [cpc EXCEPT ![c] = "running"]
    /\ waiters' = [waiters EXCEPT ![cop[c]] = Tail(@)]
    /\ UNCHANGED <<failure_threshold, half_open_timeout, state, failure_count,
                   last_failure_time, now, cop, outcome, streak, retries,
                   attempt, failed_ops>>

\* the wrapped function returns: _handle_success, the lock is released
Success(c) ==
    /\ cpc[c] = "running"
    /\ UNCHANGED notBreaker
    /\ state' = handle_success_state(state)
    /\ failure_count' = handle_success_count(state, failure_count)
    /\ streak' = 0
    /\ cpc' = [cpc EXCEPT ![c] = "idle"]
    /\ attempt' = [attempt EXCEPT ![c] = 0]
    /\ cop' = [cop EXCEPT ![c] = "none"]
    /\ outcome' = [outcome EXCEPT ![c] = "ok"]
    /\ UNCHANGED <<failure_threshold, half_open_timeout, last_failure_time,
                   now, waiters, retries, failed_ops>>

\* the wrapped function raises: _handle_failure, the lock is released, the
\* exception goes up to handle_errors (or to the caller)
Failure(c) ==
    /\ cpc[c] = "running"
    /\ failure_count < MaxFailures
    /\ UNCHANGED notBreaker
    /\ failure_count' = failure_count + 1
    /\ last_failure_time' = now
    /\ state' = handle_failure_state(state, failure_count', failure_threshold)
    /\ streak' = streak + 1
    /\ failed_ops' = failed_ops \cup {cop[c]}
    /\ cpc' = [cpc EXCEPT ![c] = after_error(attempt[c])]
    /\ attempt' = [attempt EXCEPT ![c] =
                       IF after_error(@) = "idle" THEN 0 ELSE @]
    /\ cop' = [cop EXCEPT ![c] =
                   IF after_error(attempt[c]) = "idle" THEN "none" ELSE @]
    /\ outcome' = [outcome EXCEPT ![c] = "error"]
    /\ UNCHANGED <<failure_threshold, half_open_timeout, now, waiters, retries>>

\* time passes
Tick ==
    /\ now < MaxTime
    /\ now' = now + 1
    /\ UNCHANGED notBreaker
    /\ UNCHANGED <<failure_threshold, half_open_timeout, state, failure_count,
                   last_failure_time, cpc, cop, outcome, waiters, streak,
                   retries, attempt, failed_ops>>

BreakerNext ==
    \/ \E c \in Callers, o \in Operations : Begin(c, o)
    \/ \E c \in Callers : Acquire(c)
    \/ \E c \in Callers : Success(c)
    \/ \E c \in Callers : Failure(c)
    \/ Tick

BreakerSpec == BreakerInit /\ [][BreakerNext]_vars

\* AIPairFinder: the two operations wrapped by handle_errors(retries=3)
\* around circuit_breaker(api_circuit, ...)
RetryInit ==
    /\ failure_threshold \in 1..MaxThreshold
    /\ half_open_timeout = api_half_open_timeout
    /\ retries = api_retries
    /\ BreakerFresh
    /\ test_mode = TRUE
    /\ bot_test_mode = TRUE
    /\ TradeFresh
    /\ limit = MaxLimit /\ window = MaxWindow
    /\ LimiterFresh
    /\ CacheFresh
    /\ CurrencyFresh
    /\ AgentFresh
    /\ ClientFresh
    /\ StreamsFresh
    /\ ConfigFresh
    /\ ManagerFresh
    /\ RedisFresh
    /\ StartFresh

RetryNext ==
    \/ \E c \in Callers, o \in Operations : Begin(c, o)
    \/ \E c \in Callers : Retry(c)
    \/ \E c \in Callers : Acquire(c)
    \/ \E c \in Callers : Success(c)
    \/ \E c \in Callers : Failure(c)
    \/ Tick

RetrySpec == RetryInit /\ [][RetryNext]_vars

----------------------------------------------------------------------------
(* RateLimiter, in-memory state: a check runs without suspending *)

\* _get_current_usage: self.state[scope][key], created on first access
get_current_usage(k) ==
    IF rl_state[k] = NoInfo
    THEN [requests |-> 0, window_start |-> rl_now] ELSE rl_state[k]

\* _should_reset
should_reset(info) == rl_now - info.window_start >= window

\* the info the limit is tested on: a new window after a reset
window_info(info) ==
    IF should_reset(info) THEN [requests |-> 0, window_start |-> rl_now] ELSE info

\* mutant: the limit test lets one request too many through
limit_exceeded_late(info, cost) == info.requests + cost > limit + 1

\* info.requests + cost > limit.requests
limit_exceeded(info, cost) == info.requests + cost > limit

\* mutant: the new window is stored also when the request is rejected
rejected_state_reset(k, info) == [rl_state EXCEPT ![k] = window_info(info)]

\* what a rejected check leaves in self.state: the entry as it was read
rejected_state(k, info) == [rl_state EXCEPT ![k] = info]

LimiterInit ==
    /\ limit \in 1..MaxLimit
    /\ window \in 1..MaxWindow
    /\ LimiterFresh
    /\ test_mode = TRUE
    /\ bot_test_mode = TRUE
    /\ TradeFresh
    /\ failure_threshold = api_failure_threshold
    /\ half_open_timeout = api_half_open_timeout
    /\ retries = api_retries
    /\ BreakerFresh
    /\ CacheFresh
    /\ CurrencyFresh
    /\ AgentFresh
    /\ ClientFresh
    /\ StreamsFresh
    /\ ConfigFresh
    /\ ManagerFresh
    /\ RedisFresh
    /\ StartFresh

check_rate_limit(k, category, cost) ==
    /\ UNCHANGED notLimiter
    /\ UNCHANGED <<limit, window, rl_now>>
    /\ IF category = "unknown"
       THEN \* KeyError: logged, the request is let through
            /\ rl_result' = [key |-> k, cost |-> cost, outcome |-> "error",
                             reset_in |-> 0]
            /\ UNCHANGED <<rl_state, admitted>>
       ELSE LET stored == get_current_usage(k)
                info == window_info(stored)
            IN  IF limit_exceeded(info, cost)
                THEN /\ rl_result' =
                           [key |-> k, cost |-> cost, outcome |-> "rejected",
                            reset_in |-> info.window_start + window - rl_now]
                     /\ rl_state' = rejected_state(k, stored)
                     /\ UNCHANGED admitted
                ELSE /\ rl_result' = [key |-> k, cost |-> cost,
                                      outcome |-> "accepted", reset_in |-> 0]
                     /\ rl_state' = [rl_state EXCEPT ![k] =
                                        [info EXCEPT !.requests = @ + cost]]
                     /\ admitted' = [admitted EXCEPT ![k][0] = @ + cost]

\* time passes
LimiterTick ==
    /\ rl_now < MaxTime
    /\ rl_now' = rl_now + 1
    /\ rl_result' = NoCheck
    /\ admitted' = [k \in Keys |-> [j \in 0..(MaxWindow - 1) |->
                        IF 0 < j /\ j < window THEN admitted[k][j - 1] ELSE 0]]
    /\ UNCHANGED notLimiter
    /\ UNCHANGED <<limit, window, rl_state>>

LimiterNext ==
    \/ \E k \in Keys, category \in Categories, cost \in 1..MaxCost :
          check_rate_limit(k, category, cost)
    \/ LimiterTick

LimiterSpec == LimiterInit /\ [][LimiterNext]_vars

----------------------------------------------------------------------------
(* BotCore: price cache and detection of triangular opportunities. Handlers *)
(* suspend only where they wait for a message, so a handler runs from one    *)
(* "idle" to the next without another task running in between.              *)

\* base pairs of _detect_arbitrage_opportunities, in its order
base_pairs == <<"BTC", "ETH", "BNB", "USDT", "BUSD">>

\* base in p
contains(sym, base) == sym[1] = base \/ sym[2] = base

\* p.replace(base, '')
remove(sym, base) ==
    IF sym[1] = base /\ sym[2] = base THEN ""
    ELSE IF sym[1] = base THEN sym[2]
    ELSE IF sym[2] = base THEN sym[1]
    ELSE "other"

RECURSIVE Concat(_)
Concat(seqs) == IF seqs = <<>> THEN <<>> ELSE Head(seqs) \o Concat(Tail(seqs))

\* _calculate_triangular_profit, in millionths; 0 stands for None
calculate_triangular_profit(q1, q2, q3) ==
    IF \E x \in {q1.ask, q1.bid, q2.ask, q2.bid, q3.ask, q3.bid} : x <= 0
    THEN 0
    ELSE LET profit1 == (q2.bid * q3.bid * 1000000) \div q1.ask - 1000000
                            - 3 * fee_ppm
             profit2 == (q1.bid * 1000000) \div (q3.ask * q2.ask) - 1000000
                            - 3 * fee_ppm
             best_profit == Max(profit1, profit2)
         IN  IF best_profit > 0 THEN best_profit ELSE 0

\* mutant: the 5 s filter is not applied
recent_pairs_unfiltered(cache, t) ==
    SelectSeq(SymbolOrder, LAMBDA sym : cache[sym] # NoQuote)

\* the symbols of a copy of the cache that pass the 5 s filter, in dict order
recent_pairs(cache, t) ==
    SelectSeq(SymbolOrder, LAMBDA sym :
        cache[sym] # NoQuote /\ t - cache[sym].timestamp < stale_ticks)

\* the body of the pair1/pair2 loop: the opportunity appended, if any
opportunity_of(cache, recent, base, pair1, pair2) ==
    LET asset1 == remove(pair1, base)
        asset2 == remove(pair2, base)
        InRecent(sym) == \E n \in 1..Len(recent) : recent[n] = sym
        pair3 == IF InRecent(<<asset1, asset2>>) THEN <<asset1, asset2>>
                 ELSE <<asset2, asset1>>
    IN  IF pair1 = pair2 \/ asset1 = "" \/ asset2 = "" \/ ~InRecent(pair3)
        THEN <<>>
        ELSE LET profit == calculate_triangular_profit(
                               cache[pair1], cache[pair2], cache[pair3])
             IN  IF profit > min_profit_ppm
                 THEN << [a_step_from |-> base, a_step_to |-> asset1,
                          b_step_to |-> asset2, profit |-> profit,
                          legs |-> <<pair1, pair2, pair3>>] >>
                 ELSE <<>>

\* the opportunities list the loops build
detect(cache, t) ==
    LET recent == recent_pairs(cache, t)
    IN  Concat([b \in 1..Len(base_pairs) |->
          LET base_markets ==
                  SelectSeq(recent, LAMBDA sym : contains(sym, base_pairs[b]))
          IN  Concat([x \in 1..Len(base_markets) |->
                Concat([y \in 1..Len(base_markets) |->
                  opportunity_of(cache, recent, base_pairs[b],
                                 base_markets[x], base_markets[y])])])])

\* sorted(..., key=profit, reverse=True): a stable sort
RECURSIVE sorted(_)
sorted(opps) ==
    IF opps = <<>> THEN <<>>
    ELSE LET rest == sorted(SubSeq(opps, 1, Len(opps) - 1))
             last == opps[Len(opps)]
             before == SelectSeq(rest, LAMBDA o : o.profit >= last.profit)
             after == SelectSeq(rest, LAMBDA o : o.profit < last.profit)
         IN  before \o <<last>> \o after

CacheInit ==
    /\ CacheFresh
    /\ test_mode = TRUE
    /\ bot_test_mode = TRUE
    /\ TradeFresh
    /\ failure_threshold = api_failure_threshold
    /\ half_open_timeout = api_half_open_timeout
    /\ retries = api_retries
    /\ BreakerFresh
    /\ limit = MaxLimit /\ window = MaxWindow
    /\ LimiterFresh
    /\ CurrencyFresh
    /\ AgentFresh
    /\ ClientFresh
    /\ StreamsFresh
    /\ ConfigFresh
    /\ ManagerFresh
    /\ RedisFresh
    /\ StartFresh

\* _init_price_cache: a placeholder for every TRADING symbol
init_price_cache ==
    /\ phase = "new" /\ cache_pc = "idle"
    /\ price_cache' = [sym \in Symbols |-> Placeholder]
    /\ phase' = "streaming"
    /\ UNCHANGED notCache
    /\ UNCHANGED svars
    /\ UNCHANGED <<lock, cache_pc, via, price_data, snapshot, opportunities,
                   last_process_time, cnow>>

\* _process_stream_message up to "async with self._price_cache_lock"
stream_message(sym, bid, ask, latency) ==
    /\ phase = "streaming" /\ cache_pc = "idle"
    /\ UNCHANGED notCache
    /\ IF latency < max_latency
       THEN /\ price_data' = [symbol |-> sym,
                              quote |-> [bid |-> bid, ask |-> ask,
                                         timestamp |-> cnow, latency |-> latency]]
            /\ via' = "stream"
            /\ lock' = "stream"
            /\ cache_pc' = "acquired"
       ELSE UNCHANGED <<price_data, via, lock, cache_pc>>
    /\ UNCHANGED <<phase, price_cache, snapshot, opportunities,
                   last_process_time, cnow>>

\* _process_stream_message for a message handed to it directly
process_stream_message(sym, bid, ask, latency) ==
    /\ stream_message(sym, bid, ask, latency)
    /\ UNCHANGED svars

\* _process_price_update up to "async with self._price_cache_lock"
process_price_update(sym, bid, ask, latency) ==
    /\ phase = "streaming" /\ cache_pc = "idle"
    /\ UNCHANGED notCache
    /\ UNCHANGED svars
    /\ IF ask <= 0 \/ bid <= 0
       THEN UNCHANGED <<price_data, via, lock, cache_pc>>
       ELSE /\ price_data' = [symbol |-> sym,
                              quote |-> [bid |-> bid, ask |-> ask,
                                         timestamp |-> cnow, latency |-> latency]]
            /\ via' = "update"
            /\ lock' = "update"
            /\ cache_pc' = "acquired"
    /\ UNCHANGED <<phase, price_cache, snapshot, opportunities,
                   last_process_time, cnow>>

\* self.price_cache[symbol] = price_data, and the lock is released
WriteCache ==
    /\ cache_pc = "acquired"
    /\ price_cache' = [price_cache EXCEPT ![price_data.symbol] = price_data.quote]
    /\ price_data' = NoPriceData
    /\ lock' = "free"
    /\ cache_pc' = "written"
    /\ UNCHANGED notCache
    /\ UNCHANGED svars
    /\ UNCHANGED <<phase, via, snapshot, opportunities, last_process_time, cnow>>

\* after the write: the stream handler detects when 50 ms have passed since
\* last_process_time (they may or may not have within one tick), the update
\* handler when the cache has three entries; _detect_arbitrage_opportunities
\* starts by taking the lock
AfterWrite(passed) ==
    /\ cache_pc = "written"
    /\ cnow > last_process_time => passed
    /\ UNCHANGED notCache
    /\ UNCHANGED svars
    /\ IF (via = "stream" /\ passed)
          \/ (via = "update"
                 /\ Cardinality({sym \in Symbols : price_cache[sym] # NoQuote}) >= 3)
       THEN /\ lock' = via
            /\ cache_pc' = "copy"
            /\ UNCHANGED via
       ELSE /\ cache_pc' = "idle"
            /\ via' = "none"
            /\ UNCHANGED lock
    /\ UNCHANGED <<phase, price_cache, price_data, snapshot, opportunities,
                   last_process_time, cnow>>

\* mutant: the copy takes the bid of every entry from the placeholder the
\* entry replaced
copy_torn(cache) ==
    [sym \in Symbols |->
        IF cache[sym] = NoQuote THEN cache[sym]
        ELSE [cache[sym] EXCEPT !.bid = Placeholder.bid]]

\* self.price_cache.copy()
copy(cache) == cache

\* price_cache = self.price_cache.copy() under the lock, which is released
CopyCache ==
    /\ cache_pc = "copy"
    /\ snapshot' = copy(price_cache)
    /\ lock' = "free"
    /\ cache_pc' = "compute"
    /\ UNCHANGED notCache
    /\ UNCHANGED svars
    /\ UNCHANGED <<phase, price_cache, via, price_data, opportunities,
                   last_process_time, cnow>>

\* the rest of _detect_arbitrage_opportunities, and the return to the
\* handler, which waits for the next message
DetectOpportunities ==
    /\ cache_pc = "compute"
    /\ LET found == detect(snapshot, cnow)
       IN  opportunities' =
               IF found # <<>>
               THEN SubSeq(sorted(found), 1, Min(Len(found), max_opportunities))
               ELSE opportunities
    /\ last_process_time' = IF via = "stream" THEN cnow ELSE last_process_time
    /\ cache_pc' = "idle"
    /\ via' = "none"
    /\ snapshot' = [sym \in Symbols |-> NoQuote]
    /\ UNCHANGED notCache
    /\ UNCHANGED svars
    /\ UNCHANGED <<phase, price_cache, lock, price_data, cnow>>

\* cleanup up to "async with self._price_cache_lock": running = False, every
\* task of _active_tasks is cancelled and awaited
cleanup ==
    /\ phase = "streaming" /\ cache_pc = "idle"
    /\ phase' = "cleaning"
    /\ lock' = "cleanup"
    /\ batch_pc' = [b \in Batches |->
                       IF batch_pc[b] = "none" THEN "none" ELSE "stopped"]
    /\ UNCHANGED <<connects, silence>>
    /\ UNCHANGED notCache
    /\ UNCHANGED <<price_cache, cache_pc, via, price_data, snapshot,
                   opportunities, last_process_time, cnow>>

\* self.price_cache.clear(), and the lock is released
ClearCache ==
    /\ phase = "cleaning"
    /\ price_cache' = [sym \in Symbols |-> NoQuote]
    /\ lock' = "free"
    /\ phase' = "cleaned"
    /\ UNCHANGED notCache
    /\ UNCHANGED svars
    /\ UNCHANGED <<cache_pc, via, price_data, snapshot, opportunities,
                   last_process_time, cnow>>

\* time passes while every task waits
CacheTick ==
    /\ cache_pc = "idle" /\ phase # "cleaning"
    /\ cnow < MaxCacheTime
    /\ cnow' = cnow + 1
    /\ UNCHANGED notCache
    /\ UNCHANGED svars
    /\ UNCHANGED <<phase, price_cache, lock, cache_pc, via, price_data,
                   snapshot, opportunities, last_process_time>>

CacheNext ==
    \/ init_price_cache
    \/ \E sym \in Symbols, q \in Quotes, latency \in Latencies :
          process_stream_message(sym, q[1], q[2], latency)
    \/ \E sym \in Symbols, q \in UpdateQuotes, latency \in Latencies :
          process_price_update(sym, q[1], q[2], latency)
    \/ WriteCache
    \/ \E passed \in BOOLEAN : AfterWrite(passed)
    \/ CopyCache
    \/ DetectOpportunities
    \/ cleanup
    \/ ClearCache
    \/ CacheTick

CacheSpec == CacheInit /\ [][CacheNext]_vars

----------------------------------------------------------------------------
(* CurrencyCore: the tickers and the search for candidates. The search has  *)
(* no suspension point, so one search is one step. The Ticker objects of    *)
(* CurrencyCore.tickers are the ones CurrencyCore.markets lists, and the    *)
(* stream handed to the search is CurrencyCore.tickers itself.              *)

notCurrency == <<tvars, bvars, lvars, cvars, avars, wvars, svars, gvars, mvars, rvars, xvars>>

\* base_currencies of get_dynamic_candidates_from_stream, in its order
base_currencies == <<"BTC", "ETH", "BNB", "USDT", "BUSD", "USDC">>

\* stream.get(symbol) finds a Ticker
Has(stream, sym) == sym \in Symbols /\ stream[sym] # NoTicker

\* get_currency_from_stream: the symbol of the Ticker it returns (<<>> for
\* None) and the stream with the flag the call has set on that Ticker
get_currency_from_stream(stream, from_cur, to_cur) ==
    IF Has(stream, <<to_cur, from_cur>>)
    THEN [stream |-> [stream EXCEPT ![<<to_cur, from_cur>>].flipped = FALSE],
          symbol |-> <<to_cur, from_cur>>]
    ELSE IF Has(stream, <<from_cur, to_cur>>)
    THEN [stream |-> [stream EXCEPT ![<<from_cur, to_cur>>].flipped = TRUE],
          symbol |-> <<from_cur, to_cur>>]
    ELSE [stream |-> stream, symbol |-> <<>>]

\* _normalize_volume, in units of 1e-5 BTC
normalize_volume(stream, sym) ==
    LET qty == Min(stream[sym].bid_qty, stream[sym].ask_qty)
    IN  IF sym[2] = "BTC" THEN qty * 100
        ELSE IF sym[1] = "BTC" THEN qty * stream[sym].last_price * 10
        ELSE IF Has(stream, <<sym[2], "BTC">>)
        THEN qty * stream[sym].last_price * stream[<<sym[2], "BTC">>].last_price
        ELSE qty * stream[sym].last_price * 10

\* the volume, price, trades and spread filter a leg has to pass
passes_filters(stream, sym) ==
    /\ stream[sym].volume > 0
    /\ stream[sym].bid_price > 0
    /\ stream[sym].ask_price > 0
    /\ stream[sym].trades >= MIN_TRADES
    /\ normalize_volume(stream, sym) >= MIN_VOLUME_BTC
    /\ (stream[sym].ask_price - stream[sym].bid_price) * 100
           <= MAX_SPREAD_PCT * stream[sym].ask_price

\* _organize_markets: the symbols that end in the base, in dict order
markets(stream, base) ==
    SelectSeq(SymbolOrder, LAMBDA sym : Has(stream, sym) /\ sym[2] = base)

\* 1 / ask if the Ticker is flagged flipped, else bid, as <<numerator,
\* denominator>>
leg_factor(tk) ==
    IF tk.flipped THEN <<10, tk.ask_price>> ELSE <<tk.bid_price, 10>>

\* the body of the loop over b_pairs for one Ticker: the stream and the
\* matches after it
via_path_step(acc, a_pair, b_pair, b_sym) ==
    LET key == remove(b_sym, b_pair)
        a_sym == <<key, a_pair>>
        in_a_keys == /\ Has(acc.stream, a_sym)
                     /\ passes_filters(acc.stream, a_sym)
                     /\ key # b_pair
    IN  IF ~passes_filters(acc.stream, b_sym) \/ ~in_a_keys THEN acc
        ELSE LET got == get_currency_from_stream(acc.stream, key, a_pair)
                 s == got.stream
             IN  IF got.symbol = <<>> \/ ~passes_filters(s, got.symbol)
                 THEN [stream |-> s, matches |-> acc.matches]
                 ELSE LET a == leg_factor(s[a_sym])
                          b == leg_factor(s[b_sym])
                          c == leg_factor(s[got.symbol])
                          rate == (a[1] * b[1] * c[1] * 10000)
                                      \div (a[2] * b[2] * c[2])
                          match == [a_step_from |-> a_pair, a_step_to |-> key,
                                    b_step_to |-> b_pair, rate |-> rate,
                                    a_volume |->
                                        Min(normalize_volume(s, a_sym),
                                            Min(normalize_volume(s, b_sym),
                                                normalize_volume(s, got.symbol)))]
                      IN  [stream |-> s,
                           matches |-> IF rate > min_rate
                                       THEN Append(acc.matches, match)
                                       ELSE acc.matches]

\* get_candidates_from_stream_via_path: the loop over the first n Tickers of
\* market b_pair, started on a stream and an empty list of matches
RECURSIVE get_candidates_from_stream_via_path(_, _, _, _)
get_candidates_from_stream_via_path(stream, a_pair, b_pair, n) ==
    IF n = 0 \/ markets(stream, a_pair) = <<>> THEN [stream |-> stream, matches |-> <<>>]
    ELSE via_path_step(
             get_candidates_from_stream_via_path(stream, a_pair, b_pair, n - 1),
             a_pair, b_pair, markets(stream, b_pair)[n])

\* candidates.sort(key=rate, reverse=True): a stable sort
RECURSIVE sort_by_rate(_)
sort_by_rate(ms) ==
    IF ms = <<>> THEN <<>>
    ELSE LET rest == sort_by_rate(SubSeq(ms, 1, Len(ms) - 1))
             last == ms[Len(ms)]
             before == SelectSeq(rest, LAMBDA m : m.rate >= last.rate)
             after == SelectSeq(rest, LAMBDA m : m.rate < last.rate)
         IN  before \o <<last>> \o after

\* the pairs (base, quote) of the loops of get_dynamic_candidates_from_stream,
\* in loop order, less those for which get_candidates_from_stream_via_path
\* returns at once because a market is empty
paths(stream) ==
    LET nb == Len(base_currencies)
        all == [n \in 1..(nb * nb) |->
                   <<base_currencies[((n - 1) \div nb) + 1],
                     base_currencies[((n - 1) % nb) + 1]>>]
    IN  SelectSeq(all, LAMBDA p : /\ p[1] # p[2]
                                  /\ markets(stream, p[1]) # <<>>
                                  /\ markets(stream, p[2]) # <<>>)

\* the loops of get_dynamic_candidates_from_stream over the first n paths;
\* the candidates are not yet sorted
RECURSIVE dynamic_search(_, _, _)
dynamic_search(stream, todo, n) ==
    IF n = 0 THEN [stream |-> stream, matches |-> <<>>]
    ELSE LET before == dynamic_search(stream, todo, n - 1)
             found == get_candidates_from_stream_via_path(
                          before.stream, todo[n][1], todo[n][2],
                          Len(markets(stream, todo[n][2])))
         IN  [stream |-> found.stream,
              matches |-> before.matches \o found.matches]

get_dynamic_candidates_from_stream(stream) ==
    LET all == dynamic_search(stream, paths(stream), Len(paths(stream)))
    IN  [stream |-> all.stream, matches |-> sort_by_rate(all.matches)]

CurrencyInit ==
    /\ CurrencyFresh
    /\ CacheInit

\* tick, as ticker_loop calls it for each ticker of the exchange in turn: a
\* new Ticker object replaces the symbol's
tick(data) ==
    /\ tickers' = [tickers EXCEPT ![SymbolOrder[next_tick]] =
                      [bid_price |-> data.bidPrice, ask_price |-> data.askPrice,
                       last_price |-> data.lastPrice, bid_qty |-> data.bidQty,
                       ask_qty |-> data.askQty, volume |-> data.volume,
                       trades |-> data.count, flipped |-> FALSE]]
    /\ next_tick' = (next_tick % Len(SymbolOrder)) + 1
    /\ cycled' = FALSE
    /\ UNCHANGED candidates
    /\ UNCHANGED notCurrency

\* get_opportunities, outside simulation mode
get_opportunities ==
    /\ IF \A sym \in Symbols : tickers[sym] = NoTicker
       THEN UNCHANGED uvars
       ELSE LET found == get_dynamic_candidates_from_stream(tickers)
            IN  /\ tickers' = found.stream
                /\ candidates' = found.matches
                /\ cycled' = TRUE
                /\ UNCHANGED next_tick
    /\ UNCHANGED notCurrency

CurrencyNext ==
    \/ \E data \in TickerData : tick(data)
    \/ get_opportunities

CurrencySpec == CurrencyInit /\ [][CurrencyNext]_vars

----------------------------------------------------------------------------
(* The validators. ArbitrageAgent._validate_opportunity is synchronous: one *)
(* call is one step. The scorer behind analyze_opportunity is outside the   *)
(* program; its answer is an input of the call.                             *)

notValidator == <<tvars, bvars, lvars, cvars, uvars, wvars, svars, gvars, mvars, rvars, xvars>>

\* analysis.get(key, default)
analysis_get(analysis, key, default) ==
    IF analysis.kind = "scores" THEN analysis[key] ELSE default

\* is_valid of _validate_opportunity; slippage in hundredths of a percent
is_valid(analysis) ==
    /\ analysis_get(analysis, "confidence_score", 0) >= min_confidence
    /\ analysis_get(analysis, "risk_score", 10) <= max_risk
    /\ analysis_get(analysis, "slippage", 100) <= agent_max_spread
    /\ analysis_get(analysis, "volume_sufficient", FALSE)

\* the cache holds an entry for the path that is younger than the TTL
cache_hit(cache, path, t) ==
    cache[path] # NoEntry /\ t - cache[path].timestamp < cache_ttl

\* TradingCore.validate_opportunity, given the balance the exchange answers
validate_opportunity(opp, balance) ==
    /\ ~(net_profit(opp) < min_profit)
    /\ check_balance(balance, trade_amount)
    /\ \A v \in {opp.a_volume, opp.b_volume, opp.c_volume} : ~(v < trade_amount)

ValidatorInit ==
    /\ AgentFresh
    /\ CacheInit

\* ArbitrageAgent._validate_opportunity
agent_validate_opportunity(opp, analysis) ==
    /\ IF cache_hit(agent_cache, opp.path, agent_now)
       THEN /\ verdict' = [by |-> "agent", opp |-> opp,
                           valid |-> agent_cache[opp.path].valid,
                           source |-> "cache", analysis |-> "none",
                           calls |-> 1 - verdict.calls]
            /\ UNCHANGED agent_cache
       ELSE IF \/ opp.profit_percentage < agent_min_profit
               \/ opp.volume_24h < agent_min_volume
       THEN /\ verdict' = [by |-> "agent", opp |-> opp, valid |-> FALSE,
                           source |-> "local", analysis |-> "none",
                           calls |-> 1 - verdict.calls]
            /\ UNCHANGED agent_cache
       ELSE /\ agent_cache' = [agent_cache EXCEPT ![opp.path] =
                                  [timestamp |-> agent_now,
                                   valid |-> is_valid(analysis), opp |-> opp]]
            /\ verdict' = [by |-> "agent", opp |-> opp,
                           valid |-> is_valid(analysis),
                           source |-> "analysis", analysis |-> analysis.kind,
                           calls |-> 1 - verdict.calls]
    /\ UNCHANGED agent_now
    /\ UNCHANGED notValidator

\* TradingCore.validate_opportunity is applied to an opportunity
trading_validate_opportunity(opp, balance) ==
    /\ verdict' = [by |-> "trading", opp |-> opp,
                   valid |-> validate_opportunity(opp, balance),
                   source |-> "local", analysis |-> "none",
                   calls |-> 1 - verdict.calls]
    /\ UNCHANGED <<agent_cache, agent_now>>
    /\ UNCHANGED notValidator

\* 250 ms pass
AgentTick ==
    /\ agent_now < MaxAgentTime
    /\ agent_now' = agent_now + 1
    /\ UNCHANGED <<agent_cache, verdict>>
    /\ UNCHANGED notValidator

ValidatorNext ==
    \/ \E opp \in AgentOpportunities, analysis \in Analyses :
           agent_validate_opportunity(opp, analysis)
    \/ \E opp \in TradeCandidates, balance \in Balances :
           trading_validate_opportunity(opp, balance)
    \/ AgentTick

ValidatorSpec == ValidatorInit /\ [][ValidatorNext]_vars

----------------------------------------------------------------------------
(* The stream batches of BotCore: _start_price_streams creates one task of  *)
(* _handle_batch_stream per batch of symbols. The tasks share the event     *)
(* loop with the handlers of the cache; a task moves when every other task  *)
(* is at a suspension point.                                                *)

notStreams == <<tvars, bvars, lvars, uvars, avars, wvars, gvars, mvars, rvars, xvars>>

\* what entering a batch's socket does: the socket opens, "async with ws"
\* raises, or multiplex_socket raises
ConnectOutcomes == {"open", "refused", "raises"}

\* mutant: what happens to one batch's task happens to every task
task_moves_all(pcs, b, to) == [c \in Batches |-> to]

\* the task of batch b moves to another position
task_moves(pcs, b, to) == [pcs EXCEPT ![b] = to]

StreamsInit ==
    /\ StreamsFresh
    /\ CacheInit

\* _start_price_streams: one task per batch
start_price_streams ==
    /\ phase = "streaming" /\ cache_pc = "idle"
    /\ \A b \in Batches : batch_pc[b] = "none"
    /\ batch_pc' = [b \in Batches |-> "connect"]
    /\ UNCHANGED <<connects, silence>>
    /\ UNCHANGED cvars
    /\ UNCHANGED notStreams

\* one pass of the outer loop of _handle_batch_stream up to its first
\* suspension: the socket is entered, or the error is logged and the loop
\* starts over at once, or the outer handler sleeps 5 s
BatchConnect(b, opened) ==
    /\ phase = "streaming" /\ cache_pc = "idle"
    /\ batch_pc[b] = "connect"
    /\ connects[b] < MaxConnects
    /\ IF opened = "raises"
       THEN /\ batch_pc' = task_moves(batch_pc, b, "sleeping")
            /\ UNCHANGED <<connects, silence>>
       ELSE /\ connects' = [connects EXCEPT ![b] = @ + 1]
            /\ silence' = [silence EXCEPT ![b] = 0]
            /\ batch_pc' = task_moves(batch_pc, b,
                               IF opened = "open" THEN "receiving"
                               ELSE "connect")
    /\ UNCHANGED cvars
    /\ UNCHANGED notStreams

\* stream.recv() answers with a message of one of the batch's symbols, which
\* is handed to _process_stream_message
BatchRecv(b, sym, bid, ask, latency) ==
    /\ batch_pc[b] = "receiving"
    /\ sym \in batch(b)
    /\ stream_message(sym, bid, ask, latency)
    /\ silence' = [silence EXCEPT ![b] = 0]
    /\ UNCHANGED <<batch_pc, connects>>

\* stream.recv() answers with a bookTicker message whose fields cannot be
\* read (a key is missing, a price is no number): _process_stream_message
\* raises inside its try block, logs the error and returns
BatchRecvMalformed(b) ==
    /\ phase = "streaming" /\ cache_pc = "idle"
    /\ batch_pc[b] = "receiving"
    /\ silence' = [silence EXCEPT ![b] = 0]
    /\ UNCHANGED <<batch_pc, connects>>
    /\ UNCHANGED cvars
    /\ UNCHANGED notStreams

\* wait_for gives up after 10 s: the loop goes on with the same socket;
\* silence[b] = MaxSilence stands for MaxSilence timeouts in a row or more
BatchTimeout(b) ==
    /\ phase = "streaming" /\ cache_pc = "idle"
    /\ batch_pc[b] = "receiving"
    /\ silence' = [silence EXCEPT ![b] = Min(@ + 1, MaxSilence)]
    /\ UNCHANGED <<batch_pc, connects>>
    /\ UNCHANGED cvars
    /\ UNCHANGED notStreams

\* stream.recv() raises: the error is logged and the task sleeps 1 s
BatchRecvError(b) ==
    /\ phase = "streaming" /\ cache_pc = "idle"
    /\ batch_pc[b] = "receiving"
    /\ batch_pc' = task_moves(batch_pc, b, "recv_sleep")
    /\ UNCHANGED <<connects, silence>>
    /\ UNCHANGED cvars
    /\ UNCHANGED notStreams

\* a sleep is over: after 1 s the inner loop goes on with the same socket,
\* after 5 s the outer loop starts over
BatchWake(b) ==
    /\ phase = "streaming" /\ cache_pc = "idle"
    /\ batch_pc[b] \in {"recv_sleep", "sleeping"}
    /\ batch_pc' = task_moves(batch_pc, b,
                       IF batch_pc[b] = "recv_sleep" THEN "receiving"
                       ELSE "connect")
    /\ UNCHANGED <<connects, silence>>
    /\ UNCHANGED cvars
    /\ UNCHANGED notStreams

\* what the tasks do by themselves
BatchTaskStep ==
    \/ \E b \in Batches, opened \in ConnectOutcomes : BatchConnect(b, opened)
    \/ \E b \in Batches : BatchTimeout(b)
    \/ \E b \in Batches : BatchWake(b)
    \/ WriteCache
    \/ \E passed \in BOOLEAN : AfterWrite(passed)
    \/ CopyCache
    \/ DetectOpportunities
    \/ ClearCache

StreamsNext ==
    \/ init_price_cache
    \/ start_price_streams
    \/ \E b \in Batches, opened \in ConnectOutcomes : BatchConnect(b, opened)
    \/ \E b \in Batches, sym \in Symbols, q \in Quotes, latency \in Latencies :
          BatchRecv(b, sym, q[1], q[2], latency)
    \/ \E b \in Batches : BatchRecvMalformed(b)
    \/ \E b \in Batches : BatchTimeout(b)
    \/ \E b \in Batches : BatchRecvError(b)
    \/ \E b \in Batches : BatchWake(b)
    \/ WriteCache
    \/ \E passed \in BOOLEAN : AfterWrite(passed)
    \/ CopyCache
    \/ DetectOpportunities
    \/ cleanup
    \/ ClearCache

StreamsSpec == StreamsInit /\ [][StreamsNext]_vars

\* the event loop runs every task that can run; nothing obliges the exchange
\* to send a message or the operator to stop the bot
StreamsLiveSpec == StreamsSpec /\ WF_vars(BatchTaskStep)

----------------------------------------------------------------------------
(* RateLimiter with Redis: hgetall and hmset are awaited, so a check is     *)
(* suspended twice and other checks run in between.                         *)

notRedis == <<tvars, bvars, cvars, uvars, avars, wvars, svars, gvars, mvars, xvars>>

RedisInit ==
    /\ LimiterInit
    /\ limit = MaxLimit /\ window = MaxWindow

\* check_rate_limit up to "await self.redis.hgetall(redis_key)"
redis_check(c, k, cost) ==
    /\ redis_pc[c] = "idle"
    /\ redis_pc' = [redis_pc EXCEPT ![c] = "hgetall"]
    /\ redis_call' = [redis_call EXCEPT ![c] =
                         [key |-> k, cost |-> cost, info |-> NoInfo]]
    /\ UNCHANGED <<redis, redis_taken>>
    /\ UNCHANGED <<limit, window, rl_state, rl_now, rl_result, admitted>>
    /\ UNCHANGED notRedis

\* hgetall answers: the info is the hash, or without a hash the entry of
\* self.state (the object itself, created on first access); then the reset,
\* the limit test and info.requests += cost, up to "await self.redis.hmset"
redis_hgetall(c) ==
    /\ redis_pc[c] = "hgetall"
    /\ LET k == redis_call[c].key
           cost == redis_call[c].cost
           shared == redis[k] = NoInfo
           stored == IF shared THEN get_current_usage(k) ELSE redis[k]
           info == window_info(stored)
           counted == [info EXCEPT !.requests = @ + cost]
       IN  IF limit_exceeded(info, cost)
           THEN /\ rl_state' = IF shared THEN rejected_state(k, stored)
                               ELSE rl_state
                /\ redis_pc' = [redis_pc EXCEPT ![c] = "idle"]
                /\ redis_call' = [redis_call EXCEPT ![c] = NoCall]
           ELSE /\ rl_state' =
                      IF shared
                      THEN [rl_state EXCEPT ![k] =
                                IF should_reset(stored) THEN stored ELSE counted]
                      ELSE rl_state
                /\ redis_pc' = [redis_pc EXCEPT ![c] = "hmset"]
                /\ redis_call' = [redis_call EXCEPT ![c].info = counted]
    /\ UNCHANGED <<redis, redis_taken>>
    /\ UNCHANGED <<limit, window, rl_now, rl_result, admitted>>
    /\ UNCHANGED notRedis

\* hmset stores the caller's info, expire follows, and the check returns True
redis_hmset(c) ==
    /\ redis_pc[c] = "hmset"
    /\ LET k == redis_call[c].key
           info == redis_call[c].info
       IN  /\ redis' = [redis EXCEPT ![k] = info]
           /\ redis_taken' = [redis_taken EXCEPT ![k] =
                                 IF redis[k] # NoInfo
                                    /\ redis[k].window_start = info.window_start
                                 THEN @ + redis_call[c].cost
                                 ELSE redis_call[c].cost]
    /\ redis_pc' = [redis_pc EXCEPT ![c] = "idle"]
    /\ redis_call' = [redis_call EXCEPT ![c] = NoCall]
    /\ UNCHANGED <<limit, window, rl_state, rl_now, rl_result, admitted>>
    /\ UNCHANGED notRedis

\* time passes, until one window is over
RedisTick ==
    /\ rl_now < MaxWindow
    /\ LimiterTick

RedisNext ==
    \/ \E c \in Callers, k \in Keys, cost \in 1..MaxLimit :
          redis_check(c, k, cost)
    \/ \E c \in Callers : redis_hgetall(c)
    \/ \E c \in Callers : redis_hmset(c)
    \/ RedisTick

RedisSpec == RedisInit /\ [][RedisNext]_vars

----------------------------------------------------------------------------
(* ConfigManager (ui/web/config_routes.py) *)

notConfig == <<tvars, bvars, lvars, cvars, uvars, avars, wvars, svars, mvars, rvars, xvars>>

\* category, key and value of the calls made
UpdateInputs ==
    ({"trading"} \X {"min_profit", "trade_amount"}
                 \X {"-0.1", "0", "abc", "0.3"})
    \cup ({"security"} \X {"max_daily_trades"} \X {"abc", "0", "500"})
    \cup ({"new_category"} \X {"new_key"} \X {"new_value"})

ConfigInit ==
    /\ ConfigFresh
    /\ CacheInit

\* self.config[category][key] = value, the category being created when it is
\* missing
store(cfg, category, key, value) ==
    LET old == IF category \in DOMAIN cfg THEN cfg[category] ELSE <<>>
        new == [k \in (DOMAIN old) \cup {key} |->
                   IF k = key THEN value ELSE old[k]]
    IN  [c \in (DOMAIN cfg) \cup {category} |->
            IF c = category THEN new ELSE cfg[c]]

\* update_config: the value is stored and saved, a line is appended to the
\* history; an exception of that append is answered with False
update_config(category, key, value, appended) ==
    /\ config' = store(config, category, key, value)
    /\ config_history' = IF appended /\ config_history < MaxHistory
                         THEN config_history + 1 ELSE config_history
    /\ updated' = [category |-> category, key |-> key, value |-> value,
                   appended |-> appended,
                   returned |-> IF appended THEN "true" ELSE "false"]
    /\ UNCHANGED notConfig

ConfigNext ==
    \E u \in UpdateInputs, appended \in BOOLEAN :
        update_config(u[1], u[2], u[3], appended)

ConfigSpec == ConfigInit /\ [][ConfigNext]_vars

----------------------------------------------------------------------------
(* ConnectionManager.execute_trades (core/connection_manager.py) *)

notManager == <<tvars, bvars, lvars, cvars, uvars, avars, wvars, svars, gvars, rvars, xvars>>

\* the lists of trades a call is given: one to MaxTrades orders, each for one
\* of the symbols
TradeLists ==
    UNION {[1..n -> Symbols] : n \in 1..MaxTrades}

\* what create_order does: the exchange accepts the order, it refuses it with
\* a BinanceAPIException, or the call raises another exception (a timeout, a
\* lost connection) before the order reached the exchange
OrderOutcomes == {"accepted", "api_error", "other_error"}

ManagerInit ==
    /\ ManagerFresh
    /\ CacheInit

\* connect, which succeeds or fails and disconnects, and disconnect
manager_connect(ok) ==
    /\ cm_pc = "idle"
    /\ cm_connected' = ok
    /\ UNCHANGED <<cm_pc, cm_trades, cm_next, cm_results, cm_filled,
                   cm_returned>>
    /\ UNCHANGED notManager

\* execute_trades up to the first create_order
execute_trades(trades) ==
    /\ cm_pc = "idle"
    /\ cm_trades' = trades
    /\ cm_next' = 1 /\ cm_results' = <<>> /\ cm_filled' = <<>>
    /\ IF ~cm_connected
       THEN /\ cm_pc' = "returned"
            /\ cm_returned' = [success |-> FALSE, error |-> TRUE,
                               listed |-> FALSE, results |-> <<>>]
       ELSE /\ cm_pc' = "sending"
            /\ cm_returned' = NoReturn
    /\ UNCHANGED cm_connected
    /\ UNCHANGED notManager

\* the answer to one create_order and the loop up to the next one, or to the
\* return
create_order(answer) ==
    /\ cm_pc = "sending"
    /\ UNCHANGED <<cm_connected, cm_trades>>
    /\ UNCHANGED notManager
    /\ LET order == cm_trades[cm_next]
       IN  CASE answer = "accepted" ->
                  /\ cm_filled' = Append(cm_filled, order)
                  /\ cm_results' = Append(cm_results,
                                          [success |-> TRUE, data |-> order])
                  /\ cm_next' = cm_next + 1
                  /\ IF cm_next = Len(cm_trades)
                     THEN /\ cm_pc' = "returned"
                          /\ cm_returned' = [success |-> TRUE, error |-> FALSE,
                                             listed |-> TRUE,
                                             results |-> cm_results']
                     ELSE UNCHANGED <<cm_pc, cm_returned>>
             [] answer = "api_error" ->
                  /\ cm_results' = Append(cm_results,
                                          [success |-> FALSE, data |-> <<>>])
                  /\ cm_pc' = "returned"
                  /\ cm_returned' = [success |-> FALSE, error |-> FALSE,
                                     listed |-> TRUE, results |-> cm_results']
                  /\ UNCHANGED <<cm_filled, cm_next>>
             [] OTHER ->
                  /\ cm_pc' = "returned"
                  /\ cm_returned' = [success |-> FALSE, error |-> TRUE,
                                     listed |-> FALSE, results |-> <<>>]
                  /\ UNCHANGED <<cm_filled, cm_next, cm_results>>

\* the caller has the result; the manager is free for the next call
ManagerDone ==
    /\ cm_pc = "returned"
    /\ cm_pc' = "idle"
    /\ cm_trades' = <<>> /\ cm_next' = 1 /\ cm_results' = <<>>
    /\ cm_filled' = <<>> /\ cm_returned' = NoReturn
    /\ UNCHANGED cm_connected
    /\ UNCHANGED notManager

ManagerNext ==
    \/ \E ok \in BOOLEAN : manager_connect(ok)
    \/ \E trades \in TradeLists : execute_trades(trades)
    \/ \E answer \in OrderOutcomes : create_order(answer)
    \/ ManagerDone

ManagerSpec == ManagerInit /\ [][ManagerNext]_vars

----------------------------------------------------------------------------
(* BotCore.start: the loop around _maintain_connection and cleanup. BotCore *)
(* is running in the phases "new" and "streaming"; it is connected in the   *)
(* phase "streaming".                                                       *)

notStart == <<tvars, bvars, lvars, uvars, avars, wvars, gvars, mvars, rvars>>

bot_running == phase \in {"new", "streaming"}

StartInit ==
    /\ StartFresh
    /\ StreamsInit

\* start is called: the loop test passes and gather runs _maintain_connection
bot_start ==
    /\ start_pc = "off"
    /\ start_pc' = IF start_retry < start_max_retries THEN "maintain"
                   ELSE "returned"
    /\ UNCHANGED start_retry
    /\ UNCHANGED <<cvars, svars>>
    /\ UNCHANGED notStart

\* _maintain_connection finds the bot not connected and calls initialize,
\* which connects and goes on to _init_price_cache and _start_price_streams
initialize ==
    /\ start_pc = "maintain"
    /\ init_price_cache
    /\ UNCHANGED xvars
   

\* initialize cannot connect: it calls cleanup and raises, and
\* _maintain_connection logs the error
initialize_fails ==
    /\ start_pc = "maintain"
    /\ phase = "new" /\ cache_pc = "idle"
    /\ phase' = "cleaned"
    /\ price_cache' = [sym \in Symbols |-> NoQuote]
    /\ UNCHANGED <<lock, cache_pc, via, price_data, snapshot, opportunities,
                   last_process_time, cnow>>
    /\ UNCHANGED <<svars, xvars>>
    /\ UNCHANGED notStart

\* _maintain_connection finds running false and returns; gather returns its
\* result without raising, and the finally block is entered
MaintainReturns ==
    /\ start_pc = "maintain"
    /\ ~bot_running /\ phase = "cleaned"
    /\ start_pc' = "finally"
    /\ UNCHANGED start_retry
    /\ UNCHANGED <<cvars, svars>>
    /\ UNCHANGED notStart

\* the finally block: cleanup on a bot that is cleaned already changes
\* nothing, or it raises and start ends with that exception; after it the
\* loop test is made again, retry_count being as it was
StartFinally(raises) ==
    /\ start_pc = "finally"
    /\ start_pc' = IF raises THEN "raised"
                   ELSE IF start_retry < start_max_retries THEN "maintain"
                   ELSE "returned"
    /\ UNCHANGED start_retry
    /\ UNCHANGED <<cvars, svars>>
    /\ UNCHANGED notStart

\* what the task of start does by itself
StartTaskStep ==
    \/ MaintainReturns
    \/ StartFinally(FALSE)
    \/ ClearCache

StartNext ==
    \/ bot_start
    \/ initialize
    \/ initialize_fails
    \/ start_price_streams
    \/ \E b \in Batches, opened \in ConnectOutcomes :
          BatchConnect(b, opened)
    \/ \E b \in Batches : BatchTimeout(b)
    \/ \E b \in Batches : BatchWake(b)
    \/ cleanup
    \/ ClearCache
    \/ MaintainReturns
    \/ \E raises \in BOOLEAN : StartFinally(raises)

StartSpec == StartInit /\ [][StartNext]_vars

\* the event loop runs the task of start whenever it can run
StartLiveSpec == StartSpec /\ WF_vars(StartTaskStep)

----------------------------------------------------------------------------
(* BinanceWebsocketClient. connect, start_multiplex_socket, the buffer      *)
(* processor and the socket's handler are tasks of one event loop; each     *)
(* action runs a task from one suspension point to the next.                *)

notClient == <<tvars, bvars, lvars, cvars, uvars, avars, svars, gvars, mvars, rvars, xvars>>

\* what client creation does: it returns a client, returns a value that is
\* not true, or raises
CreateOutcomes == {"client", "falsy", "raises"}

ClientInit ==
    /\ ClientFresh
    /\ CacheInit

\* connect(max_retries) is called: the lock is free, retry_count = 0
connect(n) ==
    /\ conn_pc = "idle" /\ result = "none"
    /\ max_retries' = n
    /\ retry_count' = 0 /\ attempts' = 0 /\ ping_try' = 0
    /\ conn_pc' = "loop"
    /\ UNCHANGED <<ws_running, client, twm, result, mux_pc, sockets, processors,
                   stream_buffer, next_msg, handler_pc, arrival>>
    /\ UNCHANGED notClient
    /\ UNCHANGED <<delivered, in_flight>>

\* the except branch of connect's while loop, from position p
connect_failed ==
    /\ retry_count' = retry_count + 1
    /\ IF retry_count + 1 < max_retries /\ ws_running
       THEN conn_pc' = "backoff" /\ UNCHANGED result
       ELSE conn_pc' = "done" /\ result' = "false"

\* one pass of connect's while loop up to the first ping: the loop test,
\* _cleanup_connections, the creation of the client and of the socket manager
Attempt(created) ==
    /\ conn_pc = "loop"
    /\ attempts < MaxAttempts
    /\ IF ~(retry_count < max_retries /\ ws_running)
       THEN /\ conn_pc' = "done" /\ result' = "false"
            /\ UNCHANGED <<client, twm, retry_count, ping_try, attempts,
                           sockets, processors, stream_buffer, in_flight>>
       ELSE /\ attempts' = attempts + 1
            /\ processors' = 0
            /\ in_flight' = {}
            /\ stream_buffer' = <<>>
            /\ sockets' = 0
            /\ ping_try' = 0
            /\ IF created = "raises"
               THEN /\ client' = "none" /\ twm' = FALSE
                    /\ connect_failed
               ELSE /\ client' = created /\ twm' = TRUE
                    /\ UNCHANGED <<retry_count, result>>
                    /\ conn_pc' = IF created = "client" THEN "ping" ELSE "loop"
    /\ UNCHANGED <<ws_running, max_retries, mux_pc, next_msg, handler_pc, arrival,
                   delivered>>
    /\ UNCHANGED notClient

\* the ping of the test loop answers or raises; the loop passes over the
\* iterations that find no client
Ping(ok) ==
    /\ conn_pc = "ping"
    /\ IF client # "client"
       THEN conn_pc' = "loop" /\ UNCHANGED <<retry_count, ping_try, result>>
       ELSE IF ok
       THEN conn_pc' = "done" /\ result' = "true"
            /\ UNCHANGED <<retry_count, ping_try>>
       ELSE IF ping_try < 2
       THEN conn_pc' = "ping_sleep" /\ UNCHANGED <<retry_count, ping_try, result>>
       ELSE connect_failed /\ UNCHANGED ping_try
    /\ UNCHANGED <<ws_running, client, twm, max_retries, attempts, mux_pc,
                   sockets, processors, stream_buffer, next_msg, handler_pc,
                   arrival>>
    /\ UNCHANGED notClient
    /\ UNCHANGED <<delivered, in_flight>>

\* asyncio.sleep(1) between two pings, or the backoff sleep, is over
ConnectWake ==
    /\ conn_pc \in {"ping_sleep", "backoff"}
    /\ conn_pc' = IF conn_pc = "ping_sleep" THEN "ping" ELSE "loop"
    /\ ping_try' = IF conn_pc = "ping_sleep" THEN ping_try + 1 ELSE ping_try
    /\ UNCHANGED <<ws_running, client, twm, max_retries, retry_count, attempts,
                   result, mux_pc, sockets, processors, stream_buffer, next_msg,
                   handler_pc, arrival>>
    /\ UNCHANGED notClient
    /\ UNCHANGED <<delivered, in_flight>>

\* close: _running = False and _cleanup_connections
close ==
    /\ ws_running
    /\ ws_running' = FALSE
    /\ processors' = 0 /\ stream_buffer' = <<>> /\ sockets' = 0
    /\ twm' = FALSE /\ client' = "none"
    /\ UNCHANGED <<conn_pc, max_retries, retry_count, ping_try, attempts, result,
                   mux_pc, next_msg, handler_pc, arrival>>
    /\ UNCHANGED notClient
    /\ in_flight' = {}
    /\ UNCHANGED delivered

\* start_multiplex_socket is called
start_multiplex_socket ==
    /\ mux_pc = "off" /\ ws_running
    /\ mux_pc' = "starting"
    /\ UNCHANGED <<ws_running, client, twm, conn_pc, max_retries, retry_count,
                   ping_try, attempts, result, sockets, processors,
                   stream_buffer, next_msg, handler_pc, arrival>>
    /\ UNCHANGED notClient
    /\ UNCHANGED <<delivered, in_flight>>

\* one pass of the outer loop of start_multiplex_socket up to its first
\* sleep: without a socket manager it sleeps and tries again, else it starts
\* a socket and a buffer processor
MuxStart ==
    /\ mux_pc = "starting"
    /\ sockets < MaxSockets /\ processors < MaxSockets
    /\ IF ~ws_running THEN mux_pc' = "off" /\ UNCHANGED <<sockets, processors>>
       ELSE IF ~twm THEN UNCHANGED <<mux_pc, sockets, processors>>
       ELSE /\ sockets' = sockets + 1
            /\ processors' = processors + 1
            /\ mux_pc' = "heartbeat"
    /\ UNCHANGED <<ws_running, client, twm, conn_pc, max_retries, retry_count,
                   ping_try, attempts, result, stream_buffer, next_msg,
                   handler_pc, arrival>>
    /\ UNCHANGED notClient
    /\ UNCHANGED <<delivered, in_flight>>

\* the heartbeat of the inner loop: a ping that fails or times out leaves the
\* inner loop, and the outer loop starts over
Heartbeat(ok) ==
    /\ mux_pc = "heartbeat"
    /\ mux_pc' = IF ~ws_running THEN "off"
                 ELSE IF client = "client" /\ ~ok THEN "starting"
                 ELSE "heartbeat"
    /\ UNCHANGED <<ws_running, client, twm, conn_pc, max_retries, retry_count,
                   ping_try, attempts, result, sockets, processors,
                   stream_buffer, next_msg, handler_pc, arrival>>
    /\ UNCHANGED notClient
    /\ UNCHANGED <<delivered, in_flight>>

\* handle_socket_message for the next message of the socket
handle_socket_message ==
    /\ sockets > 0 /\ handler_pc = "idle"
    /\ next_msg <= MaxMessages
    /\ next_msg' = next_msg + 1
    /\ IF Len(stream_buffer) < MaxBuffer
       THEN /\ stream_buffer' = Append(stream_buffer, next_msg)
            /\ arrival' = [msg |-> next_msg, met |-> stream_buffer,
                           went |-> "buffer"]
            /\ UNCHANGED handler_pc
       ELSE /\ arrival' = [msg |-> next_msg, met |-> stream_buffer,
                           went |-> "discarded"]
            /\ handler_pc' = "draining"
            /\ UNCHANGED stream_buffer
    /\ UNCHANGED <<ws_running, client, twm, conn_pc, max_retries, retry_count,
                   ping_try, attempts, result, mux_pc, sockets, processors>>
    /\ UNCHANGED notClient
    /\ UNCHANGED <<delivered, in_flight>>

\* the handler's loop over a full buffer: it takes the oldest message and
\* hands it to the callbacks, until the buffer is empty
HandlerDrain ==
    /\ handler_pc = "draining"
    /\ IF stream_buffer = <<>>
       THEN handler_pc' = "idle" /\ UNCHANGED <<stream_buffer, delivered>>
       ELSE /\ stream_buffer' = Tail(stream_buffer)
            /\ delivered' = Append(delivered, Head(stream_buffer))
            /\ UNCHANGED handler_pc
    /\ UNCHANGED in_flight
    /\ UNCHANGED <<ws_running, client, twm, conn_pc, max_retries, retry_count,
                   ping_try, attempts, result, mux_pc, sockets, processors,
                   next_msg, arrival>>
    /\ UNCHANGED notClient

\* _process_buffer: a processor that is not handling a message takes the
\* oldest one and awaits _process_message on it; the callbacks are awaited, so
\* they finish at once or suspend
process_buffer(suspends) ==
    /\ processors > Cardinality(in_flight) /\ ws_running
    /\ stream_buffer # <<>>
    /\ stream_buffer' = Tail(stream_buffer)
    /\ IF suspends
       THEN /\ in_flight' = in_flight \cup {Head(stream_buffer)}
            /\ UNCHANGED delivered
       ELSE /\ delivered' = Append(delivered, Head(stream_buffer))
            /\ UNCHANGED in_flight
    /\ UNCHANGED <<ws_running, client, twm, conn_pc, max_retries, retry_count,
                   ping_try, attempts, result, mux_pc, sockets, processors,
                   next_msg, handler_pc, arrival>>
    /\ UNCHANGED notClient

\* the callbacks a processor awaits finish with its message
ProcessorResumes(msg) ==
    /\ msg \in in_flight /\ ws_running
    /\ in_flight' = in_flight \ {msg}
    /\ delivered' = Append(delivered, msg)
    /\ UNCHANGED <<ws_running, client, twm, conn_pc, max_retries, retry_count,
                   ping_try, attempts, result, mux_pc, sockets, processors,
                   stream_buffer, next_msg, handler_pc, arrival>>
    /\ UNCHANGED notClient

ClientNext ==
    \/ \E n \in 1..MaxRetries : connect(n)
    \/ \E created \in CreateOutcomes : Attempt(created)
    \/ \E ok \in BOOLEAN : Ping(ok)
    \/ ConnectWake
    \/ close
    \/ start_multiplex_socket
    \/ MuxStart
    \/ \E ok \in BOOLEAN : Heartbeat(ok)
    \/ handle_socket_message
    \/ HandlerDrain
    \/ \E suspends \in BOOLEAN : process_buffer(suspends)
    \/ \E msg \in 1..MaxMessages : ProcessorResumes(msg)

ClientSpec == ClientInit /\ [][ClientNext]_vars

----------------------------------------------------------------------------
(* Claims about the trade executor *)

Terminal == {"completed", "failed", "stopped"}
Legs(n) == [k \in 1..n |-> k]
StepLegs(t) == [k \in 1..Len(t.steps) |-> t.steps[k].step]
\* the execute_arbitrage task takes a step other than being cancelled
TaskStepFrom(at) == pc = at /\ pc' # pc /\ pc' # "cancelled"

\* C1: with real orders, when at leg i the balance check fails or the exchange
\* rejects the order, the trade ends 'failed' with exactly i-1 steps, the legs
\* sent are 1..i-1 (or 1..i for a rejected order), each once and in order, and
\* nothing more is sent for this trade afterwards (no later leg, no reversal).
C1_FailedLegEndsTrade ==
    [][/\ ( /\ ~test_mode
            /\ \/ TaskStepFrom("check_balance") /\ last_balance' < current_amount
               \/ TaskStepFrom("order") /\ i \notin accepted' )
          => /\ trade'.status = "failed"
             /\ pc' = "idle"
             /\ Len(trade'.steps) = i - 1
             /\ StepLegs(trade') = Legs(i - 1)
             /\ accepted' = 1..(i - 1)
             /\ orders' = orders
             /\ orders = IF pc = "order" THEN Legs(i) ELSE Legs(i - 1)
       /\ (trade.status = "failed" /\ calls' = calls)
          => orders' = orders /\ trade' = trade /\ accepted' = accepted
      ]_tvars

\* leg 2 was rejected after leg 1 went through
C1_Witness ==
    /\ ~test_mode /\ trade.status = "failed" /\ i = 2
    /\ orders = <<1, 2>> /\ accepted = {1} /\ Len(trade.steps) = 1

\* C2: after each leg whose order succeeded the balance is read again and
\* compared with the floor fixed before leg 1 (99% of the initial balance);
\* below the floor the trade becomes 'stopped' and no further order is sent.
C2_StopLossAfterEachLeg ==
    [][/\ (TaskStepFrom("order") /\ i \in accepted') => pc' = "stop_loss"
       /\ (pc \in {"check_balance", "order", "stop_loss"})
          => /\ trade'.stop_loss = trade.stop_loss
             /\ trade.stop_loss = 99 * trade.initial_balance
       /\ TaskStepFrom("stop_loss")
          => IF 100 * last_balance' < 99 * trade.initial_balance
             THEN /\ trade'.status = "stopped" /\ pc' = "idle"
                  /\ orders' = orders
             ELSE trade'.status # "stopped"
       /\ (trade.status = "stopped" /\ calls' = calls)
          => orders' = orders /\ trade' = trade
      ]_tvars

\* the stop loss was hit after leg 2 of a real trade
C2_Witness ==
    /\ ~test_mode /\ trade.status = "stopped" /\ i = 2
    /\ orders = <<1, 2>> /\ accepted = {1, 2}
    /\ 100 * last_balance < 99 * trade.initial_balance

\* C3: in test mode no create_order call is made, neither by
\* execute_arbitrage (TradingCore.test_mode) nor by BotCore.execute_order
\* (BotCore.test_mode).
C3_TestModeSendsNoOrder ==
    /\ test_mode => orders = <<>> /\ accepted = {}
    /\ bot_test_mode => bot_orders = 0

\* a simulated trade ran through all three legs and execute_order was called
C3_Witness ==
    /\ test_mode /\ bot_test_mode
    /\ trade.status = "completed" /\ Len(trade.steps) = 3
    /\ bot_calls > 0

\* C4: whenever execute_arbitrage has returned with real orders, the steps list
\* has one entry, in leg order, for exactly the legs the exchange accepted.
C4_StepsShowAcceptedLegs ==
    (~test_mode /\ pc = "idle" /\ trade.status \in Terminal)
        => /\ StepLegs(trade) = Legs(Len(trade.steps))
           /\ accepted = 1..Len(trade.steps)

\* C5: a trade's status goes from 'started' to exactly one terminal status and
\* then stays; legs are attempted in the order 1, 2, 3, a leg only while the
\* trade is 'started' and after every earlier leg succeeded and passed its
\* stop-loss check (its step is recorded); 'completed' needs all three legs.
C5_StatusAndLegOrder ==
    [][/\ trade'.status # trade.status
          => \/ trade.status = "none" /\ trade'.status = "started"
             \/ trade.status = "started" /\ trade'.status \in Terminal
             \/ calls' # calls /\ trade'.status = "none"
       /\ (orders' # orders /\ calls' = calls)
          => /\ orders' = Append(orders, Len(orders) + 1)
             /\ Len(orders') <= 3
             /\ trade.status = "started" /\ trade'.status = "started"
             /\ accepted = 1..Len(orders)
             /\ StepLegs(trade) = Legs(Len(orders))
       /\ (trade'.steps # trade.steps /\ calls' = calls)
          => /\ trade.status = "started"
             /\ StepLegs(trade') = Legs(Len(trade.steps) + 1)
             /\ test_mode \/ Len(trade'.steps) \in accepted
       /\ (trade'.status = "completed" /\ trade.status # "completed")
          => /\ Len(trade'.steps) = 3
             /\ test_mode \/ (accepted' = 1..3 /\ orders' = <<1, 2, 3>>)
      ]_tvars

\* a real trade completed all three legs
C5_Witness ==
    /\ ~test_mode /\ trade.status = "completed"
    /\ orders = <<1, 2, 3>> /\ accepted = {1, 2, 3} /\ Len(trade.steps) = 3

\* C6: once the bot has been stopped, no trade is left in the non-terminal
\* 'started' status and no order is abandoned in flight.
C6_ShutdownLeavesNoStartedTrade ==
    ~running => trade.status # "started" /\ pc # "cancelled"

----------------------------------------------------------------------------
(* Claims about the circuit breaker *)

\* the wrapped function of caller c starts in this step
Starts(c) == cpc[c] # "running" /\ cpc'[c] = "running"
\* the wrapped function of caller c ends in this step
Ends(c) == cpc[c] = "running" /\ cpc'[c] = "idle"
\* caller c enters the wrapper in this step
Enters(c) ==
    /\ cpc[c] \in {"idle", "sleeping"}
    /\ \/ cpc'[c] # cpc[c] \/ outcome'[c] # outcome[c]
       \/ attempt'[c] # attempt[c] \/ cop'[c] # cop[c]

\* C7: from CLOSED the breaker opens exactly when failure_threshold
\* consecutive failures have occurred: it opens once the run of failures
\* since the last success reaches the threshold, and not before.
C7_OpensOnConsecutiveFailures ==
    [][/\ (state = "closed" /\ streak' >= failure_threshold) => state' = "open"
       /\ (state = "closed" /\ state' = "open") => streak' >= failure_threshold
      ]_bvars

\* C8: the wrapped operation never starts while the breaker is OPEN and the
\* recovery timeout has not elapsed, and a call that enters then is rejected
\* at once.
C8_NoStartWhileOpen ==
    [][\A c \in Callers :
         /\ Starts(c)
            => ~(state' = "open" /\ now - last_failure_time < recovery_timeout)
         /\ (Enters(c) /\ state = "open"
                /\ now - last_failure_time < recovery_timeout)
            => outcome'[c] = "blocked" /\ cpc'[c] = "idle"
      ]_bvars

\* C9: while OPEN, a call entering less than recovery_timeout after the last
\* failure is rejected and the state stays OPEN; a call entering later is
\* admitted and moves the state to HALF_OPEN, and the state is HALF_OPEN for
\* as long as that call runs.
C9_Admission ==
    \A c \in Callers :
        (Enters(c) /\ state = "open")
            => IF now - last_failure_time < recovery_timeout
               THEN outcome'[c] = "blocked" /\ cpc'[c] = "idle" /\ state' = "open"
               ELSE outcome'[c] = "probe" /\ cpc'[c] # "idle"
                    /\ state' = "half_open"
C9_HalfOpenAfterTimeout ==
    [][/\ C9_Admission
       /\ \A c \in Callers :
             (outcome'[c] = "probe" /\ cpc'[c] = "running")
                => state' = "half_open"
      ]_bvars

\* C10: a call that ends while the breaker is HALF_OPEN closes it and resets
\* the failure count to 0 if it succeeded, and opens it again if it failed,
\* whatever the threshold and the history.
C10_HalfOpenOutcome ==
    [][\A c \in Callers :
         (Ends(c) /\ state = "half_open")
            => IF outcome'[c] = "ok"
               THEN state' = "closed" /\ failure_count' = 0
               ELSE outcome'[c] = "error" /\ state' = "open"
      ]_bvars

\* a trial call succeeded after another caller's failure had opened the breaker:
\* the count is back to 0 although a call failed
C10_Witness ==
    /\ state = "closed" /\ failure_count = 0
    /\ now - last_failure_time >= recovery_timeout
    /\ \E c, d \in Callers : outcome[c] = "ok" /\ outcome[d] = "error"

\* C11: a call of a protected operation is rejected only on account of that
\* operation's own failures: no call is rejected while the operation it names
\* has never failed.
C11_OperationsIsolated ==
    [][\A c \in Callers :
         (Enters(c) /\ outcome'[c] = "blocked") => cop'[c] \in failed_ops
      ]_bvars

\* C12: a call through handle_errors that finds the breaker OPEN inside the
\* recovery timeout ends at once with the circuit-open error: it is a first
\* attempt, it is not followed by another attempt and no delay is slept.
C12_OpenRejectionNotRetried ==
    [][\A c \in Callers :
         (Enters(c) /\ state = "open"
             /\ now - last_failure_time < recovery_timeout)
            => /\ outcome'[c] = "blocked"
               /\ cpc[c] = "idle" /\ cpc'[c] = "idle"
      ]_bvars

----------------------------------------------------------------------------
(* Claims about the rate limiter *)

\* a check_rate_limit call that took the limit test returns in this step
CheckStep ==
    /\ rl_now' = rl_now
    /\ rl_result'.outcome \in {"accepted", "rejected"}
    /\ rl_result' # rl_result \/ rl_state' # rl_state
\* the window of key k is over, or k has no window yet
Expired(k) ==
    rl_state[k].window_start = -1 \/ rl_now - rl_state[k].window_start >= window
\* requests counted for key k in its current window
InWindow(k) == IF Expired(k) THEN 0 ELSE rl_state[k].requests
RECURSIVE SumAges(_, _)
SumAges(f, n) == IF n = 0 THEN 0 ELSE f[n - 1] + SumAges(f, n - 1)

\* C13: a check of cost c for a key is accepted iff the requests counted in
\* the key's current window plus c do not exceed the limit, and then adds c to
\* the count; a window is replaced only by a check made when it is over (or
\* when the key has none), which starts a window at the time of the check with
\* count 0 before it tests the limit; other keys are not touched.
C13_FixedWindowBudget ==
    [][/\ CheckStep
          => LET k == rl_result'.key
                 c == rl_result'.cost
             IN  /\ rl_result'.outcome = "accepted" <=> InWindow(k) + c <= limit
                 /\ rl_result'.outcome = "accepted"
                       => /\ rl_state'[k].requests = InWindow(k) + c
                          /\ rl_state'[k].window_start =
                                IF Expired(k) THEN rl_now
                                ELSE rl_state[k].window_start
                 /\ \A o \in Keys \ {k} : rl_state'[o] = rl_state[o]
       /\ \A k \in Keys :
             rl_state'[k].window_start # rl_state[k].window_start
                => CheckStep /\ rl_result'.key = k /\ Expired(k)
                   /\ rl_state'[k].window_start = rl_now
      ]_lvars

\* a window was filled up to the limit, the next cost-1 request was rejected,
\* and after the window had passed a new one was started and filled again
C13_Witness ==
    \E k \in Keys :
        /\ rl_state[k].window_start >= window
        /\ rl_state[k].requests = limit
        /\ rl_result = [key |-> k, cost |-> 1, outcome |-> "rejected",
                        reset_in |-> rl_state[k].window_start + window - rl_now]

\* C14: for every key, the total cost accepted inside any time interval as
\* long as the window never exceeds the limit.
C14_SlidingWindow ==
    \A k \in Keys : SumAges(admitted[k], window) <= limit

\* C15 as stated: a rejected check carries a reset hint between 0 and the
\* window length and leaves the key's stored count and window start as they
\* were.
C15_RejectionLeavesState ==
    [][(CheckStep /\ rl_result'.outcome = "rejected")
          => /\ 0 <= rl_result'.reset_in /\ rl_result'.reset_in <= window
             /\ rl_state' = rl_state
      ]_lvars

\* C15, amended: a rejected check carries a reset hint between 0 and the
\* window length, counts nothing, and leaves the stored entry of every key as
\* it was, except that the first check ever made for a key creates the key's
\* entry with count 0 and the window starting at the time of that check.
C15_RejectionCountsNothing ==
    [][(CheckStep /\ rl_result'.outcome = "rejected")
          => LET k == rl_result'.key
             IN  /\ 0 <= rl_result'.reset_in /\ rl_result'.reset_in <= window
                 /\ admitted' = admitted
                 /\ \A o \in Keys \ {k} : rl_state'[o] = rl_state[o]
                 /\ rl_state'[k] =
                       IF rl_state[k] = NoInfo
                       THEN [requests |-> 0, window_start |-> rl_now]
                       ELSE rl_state[k]
      ]_lvars

\* a request was rejected in the middle of a window that holds requests
C15_Witness ==
    /\ rl_result.outcome = "rejected"
    /\ rl_state[rl_result.key].requests > 0
    /\ 0 < rl_result.reset_in /\ rl_result.reset_in < window

----------------------------------------------------------------------------
(* Claims about the price cache and the detector *)

\* a detection cycle ends in this step and replaces BotCore.opportunities
CycleReports ==
    cache_pc = "compute" /\ cache_pc' = "idle" /\ opportunities' # opportunities
\* rate n/d after three legs with the fee factor 0.999 compounded per leg,
\* less 1, in millionths ((1 - 0.001)^3 = 0.997002999)
Compounded(n, d) == (n * 997003) \div d - 1000000

\* C16: the profit of every opportunity a cycle reports is, within the 0.001
\* percent the report is rounded to, the larger of the two directions'
\* rate x (1 - fee)^3 - 1, computed on the quotes of its three legs.
C16_FeeCompoundedPerLeg ==
    [][CycleReports
          => \A n \in 1..Len(opportunities') :
               LET opp == opportunities'[n]
                   q1 == snapshot[opp.legs[1]]
                   q2 == snapshot[opp.legs[2]]
                   q3 == snapshot[opp.legs[3]]
                   best == Max(Compounded(q2.bid * q3.bid, q1.ask),
                               Compounded(q1.bid, q3.ask * q2.ask))
               IN  opp.profit - best <= 10 /\ best - opp.profit <= 10
      ]_cvars

\* C17: every leg of every opportunity a cycle reports is a symbol of the
\* cycle's copy of the cache whose quote was written less than 5 s before the
\* cycle; stale entries and never-updated placeholders are no legs.
C17_OnlyFreshLegs ==
    [][CycleReports
          => \A n \in 1..Len(opportunities') :
               \A leg \in 1..3 :
                 LET sym == opportunities'[n].legs[leg]
                 IN  /\ sym \in Symbols
                     /\ snapshot[sym] # NoQuote
                     /\ snapshot[sym] # Placeholder
                     /\ cnow - snapshot[sym].timestamp < stale_ticks
      ]_cvars

\* a cycle has just reported opportunities from quotes of this tick, after
\* the clock had moved on from the placeholders and from older quotes
C17_Witness ==
    /\ cache_pc = "idle" /\ cnow > 1 /\ last_process_time = cnow
    /\ opportunities # <<>>
    /\ \A leg \in 1..3 :
          price_cache[opportunities[1].legs[leg]].timestamp = cnow

\* C18: every entry of the price cache has bid > 0, ask >= bid and a latency
\* of at most 500 ms.
C18_CacheHoldsValidQuotes ==
    \A sym \in Symbols :
        price_cache[sym] # NoQuote
            => /\ price_cache[sym].bid > 0
               /\ price_cache[sym].ask >= price_cache[sym].bid
               /\ price_cache[sym].latency <= max_latency

\* C19: the price cache changes only in steps taken by the holder of the
\* price-cache lock.
C19_WritesHoldLock ==
    [][price_cache' # price_cache => lock # "free"]_cvars

\* C20: a cycle's copy is taken while the cycle holds the lock and equals the
\* cache at that instant, so every quote in it is one update's whole quote;
\* the lock is released with the copy, before the computation, the cache is
\* not touched by the computation, and the lock is free whenever the tasks
\* are suspended.
C20_PointInTimeCopy ==
    [][/\ (cache_pc = "copy" /\ cache_pc' # "copy")
          => /\ lock # "free" /\ lock' = "free"
             /\ cache_pc' = "compute"
             /\ snapshot' = price_cache /\ price_cache' = price_cache
             /\ \A sym \in Symbols :
                   \/ snapshot'[sym] \in {NoQuote, Placeholder}
                   \/ <<snapshot'[sym].bid, snapshot'[sym].ask>>
                          \in Quotes \cup UpdateQuotes
       /\ cache_pc = "compute" => price_cache' = price_cache /\ lock = "free"
       /\ (cache_pc' = "idle" /\ phase' # "cleaning") => lock' = "free"
      ]_cvars

\* a cycle is computing on a copy that holds a received quote for every symbol
C20_Witness ==
    /\ cache_pc = "compute" /\ lock = "free"
    /\ \A sym \in Symbols : snapshot[sym].bid > 0

\* the symbol is the asset followed by the base (symbol.endswith(base))
EndsWith(sym, base) == sym[2] = base

\* C21: legs A and B of every opportunity a cycle reports are symbols that end
\* in the opportunity's base currency, and each leg's asset is the symbol
\* with that suffix removed.
C21_LegsEndInBase ==
    [][CycleReports
          => \A n \in 1..Len(opportunities') :
               LET opp == opportunities'[n]
               IN  /\ EndsWith(opp.legs[1], opp.a_step_from)
                   /\ EndsWith(opp.legs[2], opp.a_step_from)
                   /\ opp.a_step_to = opp.legs[1][1]
                   /\ opp.b_step_to = opp.legs[2][1]
      ]_cvars

\* C22: handling a quote message never runs a detection cycle inline: the
\* handler that has written the cache returns without entering the detector.
C22_NoInlineDetection ==
    [][~(via = "stream" /\ cache_pc = "written" /\ cache_pc' = "copy")]_cvars

----------------------------------------------------------------------------
(* Claims about CurrencyCore's search *)

\* a search runs in this step on the Tickers an earlier search has run on
SearchAgain == cycled /\ next_tick' = next_tick

\* C23: a search over the quotes an earlier search has run on, with no tick
\* in between, returns the candidates the earlier one returned.
C23_SearchRepeats ==
    [][SearchAgain => candidates' = candidates]_uvars

----------------------------------------------------------------------------
(* Claims about the validators *)

\* the opportunity passes the profit, volume and spread thresholds of the
\* validator that judged it
LocallyValid(v) ==
    IF v.by = "agent"
    THEN /\ v.opp.profit_percentage >= agent_min_profit
         /\ v.opp.volume_24h >= agent_min_volume
         /\ v.opp.spread <= agent_max_spread
    ELSE /\ net_profit(v.opp) >= min_profit
         /\ v.opp.a_volume >= trade_amount
         /\ v.opp.b_volume >= trade_amount
         /\ v.opp.c_volume >= trade_amount
         /\ v.opp.spread <= MAX_SPREAD_PCT * 100

\* C24: a validation returns valid only for an opportunity whose profit is at
\* least the minimum profit, whose three volumes are at least the minimum
\* volume and whose legs' spreads are at most the maximum spread.
C24_InvalidNeverAccepted ==
    (verdict.by # "none" /\ verdict.valid) => LocallyValid(verdict)

\* the agent returns a verdict in this step
AgentReturns == verdict'.by = "agent" /\ verdict' # verdict

\* C25: the agent returns a cached result only from an entry younger than the
\* TTL that was computed for the very opportunity it is asked about.
C25_CacheReusedWhileFreshAndUnchanged ==
    [][(AgentReturns /\ verdict'.source = "cache")
          => /\ agent_now - agent_cache[verdict'.opp.path].timestamp < cache_ttl
             /\ agent_cache[verdict'.opp.path].opp = verdict'.opp
      ]_avars

\* C26: when the scorer has failed or has no opinion, the agent's verdict is
\* the one the profit, volume and spread checks give.
C26_AdvisoryFailureKeepsLocalVerdict ==
    (verdict.by = "agent" /\ verdict.analysis \in {"error", "no opinion"})
        => verdict.valid = LocallyValid(verdict)

----------------------------------------------------------------------------
(* Claims about the websocket client *)

\* C27: a connect call makes at most max_retries connection attempts, and it
\* has returned once max_retries attempts have failed.
C27_ConnectBounded ==
    /\ attempts <= max_retries
    /\ retry_count >= max_retries => (conn_pc \in {"idle", "done"})
    /\ result # "none" => conn_pc = "done"

\* a message is handled in this step
Arrives == next_msg' # next_msg

\* C28: the buffer holds at most its capacity, and a message that meets a
\* full buffer replaces the oldest buffered message, the handler returning at
\* once.
C28_FullBufferDropsOldest ==
    [][/\ Len(stream_buffer') <= MaxBuffer
       /\ (Arrives /\ Len(stream_buffer) = MaxBuffer)
             => /\ stream_buffer' = Append(Tail(stream_buffer), next_msg)
                /\ handler_pc' = "idle"
      ]_wvars

----------------------------------------------------------------------------
(* Claims about the stream batches *)

\* the socket of batch b has been silent for the stale threshold or longer
Stale(b) == batch_pc[b] = "receiving" /\ silence[b] = MaxSilence

\* C29: a batch whose socket has been silent beyond the stale threshold
\* eventually leaves that socket (to open another one), unless traffic
\* resumes.
C29_SilentBatchReconnects ==
    \A b \in Batches : Stale(b) ~> (batch_pc[b] # "receiving" \/ silence[b] = 0)

\* the task of batch b fails, sleeps, wakes or enters a socket in this step
Disturbed(b) ==
    /\ batch_pc[b] # "none"
    /\ phase' = "streaming"
    /\ batch_pc'[b] # batch_pc[b] \/ connects'[b] # connects[b]

\* C30: a step in which one batch fails or reconnects leaves every other
\* batch's task where it is and the cache entries of the other batches'
\* symbols as they are.
C30_BatchesIsolated ==
    [][\A b \in Batches :
          Disturbed(b) =>
              \A c \in Batches \ {b} :
                  /\ batch_pc'[c] = batch_pc[c]
                  /\ connects'[c] = connects[c]
                  /\ \A sym \in batch(c) : price_cache'[sym] = price_cache[sym]
      ]_<<cvars, svars>>

\* one batch has failed on its socket and sleeps, having entered a socket
\* twice, while another batch receives and its quote is in the cache
C30_Witness ==
    \E b \in Batches, c \in Batches :
        /\ b # c
        /\ batch_pc[b] = "recv_sleep" /\ connects[b] >= 2
        /\ batch_pc[c] = "receiving"
        /\ \E sym \in batch(c) : price_cache[sym].bid > 0

\* a quote within range: a positive bid and an ask not below it
InRange(q) == q.bid > 0 /\ q.ask >= q.bid

\* C31: a message that is dropped leaves the cache and the batch's task as
\* they are, and a quote out of range is not written to the cache.
C31_BadQuoteDropped ==
    [][/\ \A b \in Batches :
             (batch_pc[b] = "receiving" /\ silence'[b] < silence[b]
                 /\ cache_pc' = "idle")
                => price_cache' = price_cache /\ batch_pc'[b] = "receiving"
       /\ (cache_pc = "acquired" /\ via = "stream" /\ ~InRange(price_data.quote))
             => price_cache' = price_cache
      ]_<<cvars, svars>>

----------------------------------------------------------------------------
(* Claims about the configuration *)

\* the values that are numbers, and those that are positive numbers
NumericValues == {"-0.1", "0", "0.3", "500"}
PositiveValues == {"0.3", "500"}
\* a value is valid for its key: min_profit is not negative, trade_amount is
\* positive, max_daily_trades is a number
ValidFor(key, value) ==
    CASE key = "min_profit" -> value \in NumericValues \ {"-0.1"}
      [] key = "trade_amount" -> value \in PositiveValues
      [] key = "max_daily_trades" -> value \in NumericValues
      [] OTHER -> TRUE

\* C32: update_config answers false and changes nothing for a value that is
\* invalid for its key, and stores a valid value, answering true when the
\* history file could be written.
C32_InvalidValueRefused ==
    [][updated' # updated =>
          IF ValidFor(updated'.key, updated'.value)
          THEN /\ updated'.appended => updated'.returned = "true"
               /\ config'[updated'.category][updated'.key] = updated'.value
          ELSE /\ updated'.returned = "false"
               /\ config' = config
      ]_gvars

----------------------------------------------------------------------------
(* Claims about execute_trades *)

\* the orders a result lists as accepted, in its order
ListedAccepted(ret) ==
    LET ok == SelectSeq(ret.results, LAMBDA r : r.success)
    IN  [n \in 1..Len(ok) |-> ok[n].data]

\* C33: the orders are sent in list order up to the first failure, and the
\* result of every call lists exactly the orders the exchange accepted.
C33_AcceptedOrdersListed ==
    /\ cm_filled = SubSeq(cm_trades, 1, Len(cm_filled))
    /\ cm_pc = "returned" => ListedAccepted(cm_returned) = cm_filled

----------------------------------------------------------------------------
(* Claims about the list of opportunities *)

\* a detection cycle ends in this step
CycleEnds == cache_pc = "compute" /\ cache_pc' = "idle"

\* C34: when a cycle ends, the list holds opportunities of that cycle only,
\* at most max_opportunities of them in descending order of profit, and is
\* empty when the cycle found none.
C34_ListIsOfLastCycle ==
    [][CycleEnds =>
          LET found == detect(snapshot, cnow)
          IN  /\ Len(opportunities') <= max_opportunities
              /\ \A n \in 1..Len(opportunities') :
                    /\ \E k \in 1..Len(found) : found[k] = opportunities'[n]
                    /\ n > 1 => opportunities'[n - 1].profit
                                   >= opportunities'[n].profit
              /\ found = <<>> => opportunities' = <<>>
      ]_cvars

----------------------------------------------------------------------------
(* Claims about the rate limiter with Redis *)

\* C35: with concurrent checks the cost accepted for a key within one window
\* stays within the limit, and with no check under way the stored count is
\* the cost accepted.
C35_ConcurrentChecksKeepBudget ==
    \A k \in Keys :
        /\ redis_taken[k] <= limit
        /\ (redis[k] # NoInfo /\ \A c \in Callers : redis_call[c].key # k)
              => redis[k].requests = redis_taken[k]

----------------------------------------------------------------------------
(* Claims about the lists of trades *)

TerminalStatuses == {"completed", "failed", "stopped"}

\* C36: with no call in progress, completed_trades holds exactly the trades
\* whose status is completed, and active_trades holds no trade with a
\* terminal status.
C36_ListsMatchStatus ==
    pc = "idle" =>
        /\ \A n \in 1..Len(completed_trades) :
              completed_trades[n].status = "completed"
        /\ \A n \in 1..Len(active_trades) :
              active_trades[n].status \notin TerminalStatuses

\* every trade that was given an id, in the list it is in
AllTrades == completed_trades \o active_trades

\* C37: no two trades of one TradingCore have the same id.
C37_TradeIdsUnique ==
    \A m, n \in 1..Len(AllTrades) : m # n => AllTrades[m].id # AllTrades[n].id

----------------------------------------------------------------------------
(* Claims about the delivery of messages *)

\* C38: the callbacks finish with the messages in the order the socket
\* delivered them.
C38_DeliveredInOrder ==
    \A m, n \in 1..Len(delivered) : m < n => delivered[m] < delivered[n]

\* C39: a client has at most one buffer processor and at most one multiplex
\* socket at any time.
C39_OneProcessorOneSocket ==
    processors <= 1 /\ sockets <= 1

----------------------------------------------------------------------------
(* Claims about BotCore.start *)

\* C40: once the bot has stopped running, start returns.
C40_StartTerminates ==
    (start_pc # "off" /\ ~bot_running) ~> (start_pc \in {"returned", "raised"})

====
